---- MODULE Spec2Model ----
(***************************************************************************)
(* A model of the pylast event pipeline: the tailcuts image cleaner, the   *)
(* DataWriter routing layer, the ROOT backend's per-layer tables, the      *)
(* hillas_reco command's file and event loops, the Configurable base       *)
(* class, the image parameters and the stereo reconstructor.               *)
(***************************************************************************)
EXTENDS Integers, Sequences, FiniteSets, TLC

(***************************************************************************)
(* Bounds of the model.                                                    *)
(***************************************************************************)
\* number of pixels of the modelled cameras
NPix == 3
\* pixel amplitudes and thresholds are drawn from 0..MaxVal and 1..MaxVal
MaxVal == 2
\* min_number_picture_neighbors is drawn from 0..MaxMinNeighbors
MaxMinNeighbors == 2
\* a user configuration of the DataWriter sets at most MaxOverrides parameters
MaxOverrides == 2
\* writeEventData is followed for at most MaxRows buffered rows
MaxRows == 2
\* hillas_reco is given at most MaxFiles input/output pairs
MaxFiles == 2
\* an input file holds at most MaxEvents events
MaxEvents == 2

\* a user configuration with nested values has at most MaxUserKeys entries
MaxUserKeys == 2
\* a RootWriter is handed at most MaxWrites events
MaxWrites == 2
\* telescopes of the subarray
NTels == 1

\* DatabaseWriter.cpp: rows buffered before a flush
BATCH_SIZE == 81920

Pixels == 0 .. (NPix - 1)

(***************************************************************************)
(* State of the image cleaner (ImageCleaner.cpp).                          *)
(***************************************************************************)
VARIABLES
    neigh_matrix,                  \* CameraGeometry::neigh_matrix, 0/1 entries
    image,                         \* the image handed to tailcuts_clean
    picture_thresh,
    boundary_thresh,
    keep_isolated_pixels,
    min_number_picture_neighbors,
    mask,                          \* the returned survival mask
    tc_pc                          \* "input" before the call, "done" after it

tcVars == <<neigh_matrix, image, picture_thresh, boundary_thresh,
            keep_isolated_pixels, min_number_picture_neighbors, mask, tc_pc>>

(***************************************************************************)
(* State of one DataWriter (DataWriter.cpp) and of what it dispatched.     *)
(***************************************************************************)
VARIABLES
    userConfig,      \* Configurable::userConfig: JNull or an object (key -> value)
    enabled,         \* the write_*_enabled members, by parameter name
    overwrite,       \* DataWriter::overwrite
    file_writer,     \* "null", or "open" once the backend was created and opened
    dw_pc,           \* "new", "ready", "called", "failed" (the constructor threw), "crashed"
    one_shot,        \* invocations of the backend's one-shot writes
    event,           \* the event last handed to a writer
    calls,           \* backend invocations made for that event, by method
    absent_reads,    \* reads of a field of an absent layer made for that event
    event_written,   \* TRUE once operator() has dispatched an event
    output,          \* the output file: "absent", "old", "new" or "closed"
    sim_shower_count \* writeEventData's counter of buffered SimulatedShower rows

dwVars == <<userConfig, enabled, overwrite, file_writer, dw_pc, one_shot, event,
            calls, absent_reads, event_written, output, sim_shower_count>>

(***************************************************************************)
(* State of the hillas_reco command (its main function).                   *)
(***************************************************************************)
VARIABLES
    args,        \* what the command line and the config file are like
    main_pc,     \* "start", "file" (top of the file loop), "events", "done", "crashed"
    exit_code,   \* -1 while running
    n_files,     \* inputs.size() = outputs.size() when the arguments are valid
    file_i,      \* the file loop's i, from 1
    files        \* per input/output pair: what happened to it

mainVars == <<args, main_pc, exit_code, n_files, file_i, files>>

(***************************************************************************)
(* State of one RootWriter (RootWriter.cpp).                               *)
(***************************************************************************)
VARIABLES
    rw_pc,         \* "new", "open" (file is set), "closed", "close_failed"
    rw_thrown,     \* TRUE when the last call threw
    rw_calls,      \* events handed to a write_* method so far
    trees,         \* keys of RootWriter::trees
    directories,   \* RootWriter::directories: tree name -> directory path
    build_index,   \* keys of RootWriter::build_index whose value is true
    index_object,  \* array_event.<layer>_index, the object the index tree reads
    dl2_geometry,  \* array_event.dl2_geometry and the tree bound to each element
    tables,        \* tree name -> the rows Fill() has appended
    stored,        \* the trees close() has written, and whether BuildIndex ran
    rw_written,    \* layer -> the events whose layer a write_* method processed
    root_pointing  \* array_event.pointing: the (tel_id, tel_az, tel_alt) vectors

rwVars == <<rw_pc, rw_thrown, rw_calls, trees, directories, build_index,
            index_object, dl2_geometry, tables, stored, rw_written,
                   root_pointing>>

(***************************************************************************)
(* State of one Configurable with an embedded one (ConfigSystem.hh, and    *)
(* test_Configurable and test_person of test_configurable.cpp).            *)
(***************************************************************************)
VARIABLES
    cfg_user,     \* the user configuration the constructor was given
    cfg_pc,       \* "new", "done", "failed" (the constructor threw)
    cfg_config,   \* Configurable::currentConfig
    cfg_bound     \* the bound variables x, y, str, ... and those of person

cfgVars == <<cfg_user, cfg_pc, cfg_config, cfg_bound>>

(***************************************************************************)
(* State of one call of an ImageProcessor function on a camera image       *)
(* (ImageProcessor.hh, ImageCleaner.cpp, test_image_processor.cpp).        *)
(***************************************************************************)
VARIABLES
    ip_camera,    \* the CameraGeometry: n, pix_x, pix_y, neigh_matrix
    ip_image,     \* the image, or the masked image (0 outside the mask)
    ip_pc,        \* "input" before the call, "done" after it
    ip_out        \* the function called, its arguments and what it returned

ipVars == <<ip_camera, ip_image, ip_pc, ip_out>>

(***************************************************************************)
(* State of one call of the stereo reconstructor on an event               *)
(* (GeometryReconstructor.hh).                                             *)
(***************************************************************************)
VARIABLES
    st_event,     \* tel_id -> the image parameters of the event's dl1 layer
    st_pc,        \* "input" before the call, "done" after it, "thrown"
    st_geometry   \* the ReconstructedGeometry emitted for the event

stVars == <<st_event, st_pc, st_geometry>>

(***************************************************************************)
(* State of one call of interp (rpolator.c).                               *)
(***************************************************************************)
VARIABLES
    itp_v,        \* the table of the call: [n, shape]
    itp_x,        \* the requested coordinate
    itp_pc,       \* "call", "search" inside the loop, "returned", "error"
    itp_lm,       \* lm
    itp_i,        \* i, the number of the loop iteration
    itp_l,        \* l
    itp_m,        \* m
    ipl,          \* *ipl; 0 as long as interp has not written it
    rpl           \* *rpl as a fraction [num, den]; den = 0 as long as not written

itpVars == <<itp_v, itp_x, itp_pc, itp_lm, itp_i, itp_l, itp_m, ipl, rpl>>

vars == <<tcVars, dwVars, mainVars, rwVars, cfgVars, ipVars, stVars, itpVars>>

(***************************************************************************)
(* Sparse matrix times integer vector, as Eigen computes                   *)
(* neigh_matrix * v.cast<int>(): row i is the sum over j of M[i,j]*v[j].   *)
(***************************************************************************)
\* a vector is a function on the pixel indices 0 .. n-1 of its camera
RECURSIVE RowSum(_, _, _, _)
RowSum(M, v, i, j) ==
    IF j \notin DOMAIN v THEN 0 ELSE M[<<i, j>>] * v[j] + RowSum(M, v, i, j + 1)

MatVec_skip_first(M, v) == [i \in DOMAIN v |-> RowSum(M, v, i, 1)]
MatVec(M, v) == [i \in DOMAIN v |-> RowSum(M, v, i, 0)]

\* Eigen's cast<int>() of a bool vector
CastInt(b) == [i \in DOMAIN b |-> IF b[i] THEN 1 ELSE 0]

\* the symmetric 0/1 matrices with zero diagonal over the pixels
PixelPairs == {p \in Pixels \X Pixels : p[1] < p[2]}

AdjacencyOf(E) ==
    [p \in Pixels \X Pixels |->
        IF <<p[1], p[2]>> \in E \/ <<p[2], p[1]>> \in E THEN 1 ELSE 0]

Cameras == {AdjacencyOf(E) : E \in SUBSET PixelPairs}

(***************************************************************************)
(* TailcutsCleaner::tailcuts_clean, one operator per local of the code.    *)
(***************************************************************************)
pixel_above_picture_strict(img, pt) == [i \in DOMAIN img |-> img[i] > pt]
pixel_above_picture(img, pt) == [i \in DOMAIN img |-> img[i] >= pt]

pixel_above_boundary_all(img, bt) == [i \in DOMAIN img |-> TRUE]
pixel_above_boundary(img, bt) == [i \in DOMAIN img |-> img[i] >= bt]

have_enough_neighbors_strict(num, minn) == [i \in DOMAIN num |-> num[i] > minn]
have_enough_neighbors(num, minn) == [i \in DOMAIN num |-> num[i] >= minn]

\* the neighbour constraint applied whatever keep_isolated_pixels is
pixel_in_picture_always_constrained(M, img, pt, keep, minn) ==
    IF minn = 0
    THEN pixel_above_picture(img, pt)
    ELSE LET above == pixel_above_picture(img, pt)
             num_neighbors_above_picture == MatVec(M, CastInt(above))
             enough == have_enough_neighbors(num_neighbors_above_picture, minn)
         IN  [i \in DOMAIN img |-> above[i] /\ enough[i]]
\* the neighbour constraint never applied
pixel_in_picture_unconstrained(M, img, pt, keep, minn) == pixel_above_picture(img, pt)
pixel_in_picture(M, img, pt, keep, minn) ==
    IF keep \/ minn = 0
    THEN pixel_above_picture(img, pt)
    ELSE LET above == pixel_above_picture(img, pt)
             num_neighbors_above_picture == MatVec(M, CastInt(above))
             enough == have_enough_neighbors(num_neighbors_above_picture, minn)
         IN  [i \in DOMAIN img |-> above[i] /\ enough[i]]

pixel_with_picture_neighbors(M, in_picture) ==
    LET n == MatVec(M, CastInt(in_picture)) IN [i \in DOMAIN n |-> n[i] > 0]

pixel_with_boundary_neighbors_strict(M, above_boundary) ==
    LET n == MatVec(M, CastInt(above_boundary)) IN [i \in DOMAIN n |-> n[i] > 1]
pixel_with_boundary_neighbors(M, above_boundary) ==
    LET n == MatVec(M, CastInt(above_boundary)) IN [i \in DOMAIN n |-> n[i] > 0]

tailcuts_clean(M, img, pt, bt, keep, minn) ==
    LET in_picture == pixel_in_picture(M, img, pt, keep, minn)
        above_boundary == pixel_above_boundary(img, bt)
        with_picture == pixel_with_picture_neighbors(M, in_picture)
    IN  IF keep
        THEN [i \in DOMAIN img |->
                 (above_boundary[i] /\ with_picture[i]) \/ in_picture[i]]
        ELSE LET with_boundary == pixel_with_boundary_neighbors(M, above_boundary)
             IN  [i \in DOMAIN img |->
                     (above_boundary[i] /\ with_picture[i])
                     \/ (in_picture[i] /\ with_boundary[i])]

(***************************************************************************)
(* JSON values of a flat configuration object, tagged by their JSON type.  *)
(***************************************************************************)
JNull == [t |-> "null", v |-> "null"]
JBool(b) == [t |-> "boolean", v |-> b]
JString == [t |-> "string", v |-> "yes"]
\* json::is_null
is_null(j) == "t" \in DOMAIN j /\ j.t = "null"

(***************************************************************************)
(* DataWriter::registerParams: the boolean parameters and their defaults.  *)
(* (output_type, eos_url and the two *_image parameters select the backend *)
(* and the columns of a row, not which backend method is invoked.)         *)
(***************************************************************************)
LayerFlags == {"write_simulation_shower", "write_simulated_camera", "write_r0",
               "write_r1", "write_dl0", "write_dl1", "write_dl2", "write_monitor",
               "write_pointing"}
OneShots == {"write_atmosphere_model", "write_subarray", "write_simulation_config"}
BoolParams == LayerFlags \cup OneShots \cup {"overwrite"}

registerParams ==
    [k \in BoolParams |->
        k \in {"overwrite", "write_simulation_shower", "write_simulated_camera",
               "write_dl1", "write_dl2", "write_subarray", "write_simulation_config"}]

\* Configurable::buildDefaultConfig: every registered path set to its default
buildDefaultConfig == [k \in BoolParams |-> JBool(registerParams[k])]

\* Configurable::mergeConfig, nlohmann's merge_patch on flat objects: a key of
\* the override replaces the base's, and a null value removes the key
mergeConfig(base, override) ==
    LET keys == ((DOMAIN base) \ {k \in DOMAIN override : is_null(override[k])})
                    \cup {k \in DOMAIN override : ~is_null(override[k])}
    IN  [k \in keys |-> IF k \in DOMAIN override THEN override[k] ELSE base[k]]

\* Configurable::getJsonValue for a bool parameter: FALSE when the path is
\* missing; get<bool>() throws json::type_error on a value that is no boolean
getJsonValueThrows(config, path) ==
    path \in DOMAIN config /\ config[path].t # "boolean"

getJsonValue(config, path) == path \in DOMAIN config

\* Configurable::applyConfig: the value each setter receives
applyConfig(config) ==
    [k \in BoolParams |->
        IF getJsonValue(config, k) THEN config[k].v ELSE registerParams[k]]

applyConfigThrows_strict(config) ==
    \/ \E k \in BoolParams : getJsonValueThrows(config, k)
    \/ DOMAIN config \ BoolParams # {}
applyConfigThrows(config) == \E k \in BoolParams : getJsonValueThrows(config, k)

\* Configurable::processUserConfig on a flat object: each entry is set again
\* through setJsonValue, which stores nothing for a null value; the result stays
\* null when nothing was stored
processUserConfig(user) ==
    IF is_null(user)
    THEN user
    ELSE LET kept == {k \in DOMAIN user : ~is_null(user[k])}
         IN  IF kept = {} THEN JNull ELSE [k \in kept |-> user[k]]

\* Configurable::initialize: the final configuration
finalConfig(user) ==
    LET processed == processUserConfig(user)
    IN  IF is_null(processed)
        THEN buildDefaultConfig
        ELSE mergeConfig(buildDefaultConfig, processed)

(***************************************************************************)
(* RootWriter::open: TFile::Open with RECREATE truncates or creates the    *)
(* file; with NEW it creates the file, and returns null if it exists.      *)
(* The output is "absent", "old" (written by an earlier run) or "new".     *)
(***************************************************************************)
open_always_recreate(out, ow) == [thrown |-> FALSE, output |-> "new"]
open(out, ow) ==
    IF ow
    THEN [thrown |-> FALSE, output |-> "new"]
    ELSE IF out = "absent"
         THEN [thrown |-> FALSE, output |-> "new"]
         ELSE [thrown |-> TRUE, output |-> out]

(***************************************************************************)
(* DataWriter::setUp after a successful open: the one-shot writes, in the  *)
(* order of the code.  RootWriter::write_atmosphere_model and              *)
(* write_subarray throw when the source holds none; write_simulation_config*)
(* returns without writing.  src is the set of metadata the source holds.  *)
(***************************************************************************)
OneShotOrder == <<"write_atmosphere_model", "write_subarray", "write_simulation_config">>

OneShotThrows(m, src) ==
    \/ m = "write_atmosphere_model" /\ "atmosphere_model" \notin src
    \/ m = "write_subarray" /\ "subarray" \notin src

\* the index in OneShotOrder of the first enabled write that throws, or 0
FirstThrow(en, src) ==
    LET bad == {i \in 1 .. Len(OneShotOrder) :
                   en[OneShotOrder[i]] /\ OneShotThrows(OneShotOrder[i], src)}
    IN  IF bad = {} THEN 0 ELSE CHOOSE i \in bad : \A j \in bad : i <= j

setUp_ignores_flags(en, src) ==
    LET stop == FirstThrow([m \in OneShots |-> TRUE], src)
    IN  [m \in OneShots |->
            LET i == CHOOSE j \in 1 .. Len(OneShotOrder) : OneShotOrder[j] = m
            IN  IF stop = 0 \/ i <= stop THEN 1 ELSE 0]
setUp(en, src) ==
    LET stop == FirstThrow(en, src)
    IN  [m \in OneShots |->
            LET i == CHOOSE j \in 1 .. Len(OneShotOrder) : OneShotOrder[j] = m
            IN  IF en[m] /\ (stop = 0 \/ i <= stop) THEN 1 ELSE 0]

(***************************************************************************)
(* Events: the optional layers present and whether simulation->tels holds  *)
(* a telescope.                                                            *)
(***************************************************************************)
OptLayers == {"simulation", "r0", "r1", "dl0", "dl1", "dl2", "monitor", "pointing"}

EventShapes == [present : SUBSET OptLayers, sim_tels : BOOLEAN, hillas_valid : BOOLEAN]

\* sim_tels is a fact about the simulation layer and hillas_valid (dl2 holds a
\* valid "HillasReconstructor" geometry) one about the dl2 layer
Events == {e \in EventShapes :
              /\ e.sim_tels => "simulation" \in e.present
              /\ e.hillas_valid => "dl2" \in e.present}

NoEvent == [present |-> {}, sim_tels |-> FALSE, hillas_valid |-> FALSE]

\* what a read through a disengaged std::optional can do
UBOutcomes == {"zero", "nonzero", "crash"}

Methods == LayerFlags \cup {"unique_write_method"}

\* the layer a backend method writes
LayerOf(m) ==
    CASE m = "write_simulation_shower" -> "simulation"
      [] m = "write_simulated_camera" -> "simulation"
      [] m = "write_r0" -> "r0"
      [] m = "write_r1" -> "r1"
      [] m = "write_dl0" -> "dl0"
      [] m = "write_dl1" -> "dl1"
      [] m = "write_dl2" -> "dl2"
      [] m = "write_monitor" -> "monitor"
      [] m = "write_pointing" -> "pointing"

(***************************************************************************)
(* DataWriter::operator(): the backend invocations for one event.  The     *)
(* guard of write_simulated_camera reads event.simulation->tels without    *)
(* has_value(); on an event without simulation that read is undefined and  *)
(* ub is what it does.                                                     *)
(***************************************************************************)
simulated_camera_unguarded(en, ev) ==
    en["write_simulated_camera"] /\ "simulation" \notin ev.present

simulated_camera_guard(en, ev, ub) ==
    /\ en["write_simulated_camera"]
    /\ IF "simulation" \in ev.present THEN ev.sim_tels ELSE ub = "nonzero"

operator_call_crashes(en, ev, ub) ==
    simulated_camera_unguarded(en, ev) /\ ub = "crash"

layer_guard(en, ev, m) == en[m] /\ LayerOf(m) \in ev.present

operator_call(en, ev, ub) ==
    [m \in Methods |->
        CASE m = "unique_write_method" -> 1
          [] m = "write_simulation_shower" ->
                 IF layer_guard(en, ev, m) THEN 1 ELSE 0
          [] m = "write_simulated_camera" ->
                 IF simulated_camera_guard(en, ev, ub) THEN 1 ELSE 0
          [] OTHER ->
                 IF ~operator_call_crashes(en, ev, ub) /\ layer_guard(en, ev, m)
                 THEN 1 ELSE 0]

operator_call_absent_reads(en, ev) ==
    IF simulated_camera_unguarded(en, ev)
    THEN {<<"DataWriter::operator()", "simulation">>}
    ELSE {}

NoCalls == [m \in Methods |-> 0]

(***************************************************************************)
(* The DataWriter as a state machine.                                      *)
(***************************************************************************)
\* the user configurations: null, or an object setting up to MaxOverrides
\* of the boolean parameters
UserConfigs ==
    {JNull} \cup
    UNION {[K -> {JBool(TRUE), JBool(FALSE)}] :
              K \in {S \in SUBSET BoolParams : Cardinality(S) <= MaxOverrides}}

NoMask == [i \in Pixels |-> FALSE]
NoFlags == [k \in LayerFlags \cup OneShots |-> FALSE]
NoOneShot == [m \in OneShots |-> 0]
Metadata == {"atmosphere_model", "subarray", "simulation_config"}

\* the state of the writer variables in a specification that has no writer
DWIdle ==
    /\ userConfig = JNull
    /\ enabled = NoFlags
    /\ overwrite = FALSE
    /\ file_writer = "null"
    /\ dw_pc = "new"
    /\ one_shot = NoOneShot
    /\ event = NoEvent
    /\ calls = NoCalls
    /\ absent_reads = {}
    /\ event_written = FALSE
    /\ output = "absent"
    /\ sim_shower_count = 0

\* existed: the output existed before; tried, opened: RootWriter::open was
\* called, and returned; yielded: the events the source produced; written: those
\* operator() dispatched; closed: close() ran
NoFile == [existed |-> FALSE, out |-> "absent", yielded |-> 0,
           written |-> 0, tried |-> FALSE, opened |-> FALSE, closed |-> FALSE,
           end |-> "none"]

MainIdle ==
    /\ args = "none"
    /\ main_pc = "idle"
    /\ exit_code = -1
    /\ n_files = 0
    /\ file_i = 0
    /\ files = [i \in 1 .. MaxFiles |-> NoFile]

TCIdle ==
    /\ neigh_matrix = AdjacencyOf({})
    /\ image = [i \in Pixels |-> 0]
    /\ picture_thresh = 1
    /\ boundary_thresh = 1
    /\ keep_isolated_pixels = FALSE
    /\ min_number_picture_neighbors = 0
    /\ mask = NoMask
    /\ tc_pc = "idle"

(***************************************************************************)
(* Configurable on nested JSON (ConfigSystem.hh).  A scalar is a record    *)
(* [t, q, h]; an object is a function from its keys to JSON values.  A     *)
(* number is q * 2^32 + h when t = "integer" and q * 2^32 + h / 2 when     *)
(* t = "float"; a string is the index h of Strings; a boolean is h = 1 or  *)
(* h = 0.  Thrown stands for an exception leaving the operation.           *)
(***************************************************************************)
Strings == <<"default", "test_person", "Anna", "Ricardo">>
Scalar(t, q, h) == [t |-> t, q |-> q, h |-> h]
JNil == Scalar("null", 0, 0)
JBoolean(b) == Scalar("boolean", 0, IF b THEN 1 ELSE 0)
JInteger(q, n) == Scalar("integer", q, n)
JFloat(q, h) == Scalar("float", q, h)
JStr(s) == Scalar("string", 0, CHOOSE i \in 1 .. Len(Strings) : Strings[i] = s)
Thrown == Scalar("thrown", 0, 0)
\* the outcome of an operation that has read outside a vector
Undefined == Scalar("undefined", 0, 0)
EmptyObject == << >>

is_object(j) == "t" \notin DOMAIN j
is_nil(j) == ~is_object(j) /\ j.t = "null"
is_thrown(j) == ~is_object(j) /\ j.t = "thrown"
is_undefined(j) == ~is_object(j) /\ j.t = "undefined"
contains(j, k) == is_object(j) /\ k \in DOMAIN j

\* (*current)[k] = v on an object or on null, which becomes an object;
\* operator[] with a string key on any other value throws type_error
Put(j, k, v) ==
    IF is_object(j) \/ is_nil(j)
    THEN LET base == IF is_object(j) THEN j ELSE EmptyObject
         IN  [x \in DOMAIN base \cup {k} |-> IF x = k THEN v ELSE base[x]]
    ELSE Thrown

\* the characters of the keys the model uses, a run of characters other than
\* '.' written as one element
PathChars ==
    ("" :> << >>) @@ ("." :> <<".">>) @@ (".." :> <<".", ".">>) @@
    ("x" :> <<"x">>) @@ ("y" :> <<"y">>) @@ ("str" :> <<"str">>) @@
    ("test_embedded_class_name" :> <<"test_embedded_class_name">>) @@
    ("test_person" :> <<"test_person">>) @@
    ("test_person.name" :> <<"test_person", ".", "name">>) @@
    ("test_person.age" :> <<"test_person", ".", "age">>) @@
    ("name" :> <<"name">>) @@ ("age" :> <<"age">>)

RECURSIVE splitFrom(_, _, _, _)
\* the loop of Configurable::splitPath from the i-th character: a '.' ends
\* the current part, which is kept when it is not empty
splitFrom(path, i, current, result) ==
    IF i > Len(path)
    THEN IF current # "" THEN Append(result, current) ELSE result
    ELSE IF path[i] = "."
    THEN splitFrom(path, i + 1, "",
                   IF current # "" THEN Append(result, current) ELSE result)
    ELSE splitFrom(path, i + 1, current \o path[i], result)

\* Configurable::splitPath on the keys the model uses
splitPath == [k \in DOMAIN PathChars |-> splitFrom(PathChars[k], 1, "", << >>)]

\* the order in which json::items() visits the keys of an object (std::map)
KeyOrder == <<"", ".", "..",
              "age", "name", "str", "test_embedded_class_name", "test_person",
              "test_person.age", "test_person.name", "x", "y">>

\* Configurable::json_to_any, as the JSON value setJsonValue stores for the
\* any: an integer goes through get<int>(), which keeps its low 32 bits
json_to_any(j) ==
    IF ~is_object(j) /\ j.t = "integer" THEN JInteger(0, j.h) ELSE j

RECURSIVE setJsonValue(_, _, _)
\* Configurable::setJsonValue: the intermediate objects are created, and the
\* last part is assigned unless the any holds nullptr. With no parts the bound
\* parts.size() - 1 of the loop wraps around (size_t) and parts[0] is read.
setJsonValue(config, parts, value) ==
    IF is_thrown(config)
    THEN Thrown
    ELSE IF is_undefined(config) \/ Len(parts) = 0
    THEN Undefined
    ELSE IF Len(parts) = 1
    THEN IF is_nil(value) THEN config ELSE Put(config, parts[1], value)
    ELSE IF ~is_object(config) /\ ~is_nil(config)
    THEN Thrown
    ELSE LET child == IF contains(config, parts[1])
                      THEN config[parts[1]] ELSE EmptyObject
             r == setJsonValue(child, Tail(parts), value)
         IN  IF is_thrown(r) THEN Thrown ELSE Put(config, parts[1], r)

RECURSIVE merge_patch(_, _)
\* nlohmann::json::merge_patch (RFC 7386)
merge_patch(target, patch) ==
    IF is_object(patch)
    THEN LET base == IF is_object(target) THEN target ELSE EmptyObject
             keep == {k \in DOMAIN base \cup DOMAIN patch :
                         ~(k \in DOMAIN patch /\ is_nil(patch[k]))}
         IN  [k \in keep |->
                 IF k \in DOMAIN patch
                 THEN merge_patch(IF k \in DOMAIN base THEN base[k] ELSE JNil,
                                  patch[k])
                 ELSE base[k]]
    ELSE patch

\* static_cast<int> of a double with q = 0: truncation towards zero
Truncate(h) == IF h >= 0 THEN h \div 2 ELSE -((-h) \div 2)

\* json::get<T>() for the type T of a registered default
get_as(T, j) ==
    IF is_object(j)
    THEN IF T = "json" THEN j ELSE Thrown
    ELSE CASE T = "json" -> j
           [] T = "int" ->
                  CASE j.t = "integer" -> JInteger(0, j.h)
                    [] j.t = "float" -> JInteger(0, Truncate(j.h))
                    [] j.t = "boolean" -> JInteger(0, j.h)
                    [] OTHER -> Thrown
           [] T = "double" ->
                  CASE j.t = "integer" -> JFloat(j.q, 2 * j.h)
                    [] j.t = "float" -> j
                    [] j.t = "boolean" -> JFloat(0, 2 * j.h)
                    [] OTHER -> Thrown
           [] T = "bool" -> IF j.t = "boolean" THEN j ELSE Thrown
           [] T = "string" -> IF j.t = "string" THEN j ELSE Thrown
           [] OTHER -> Thrown

RECURSIVE getJsonValueAt(_, _, _, _)
\* Configurable::getJsonValue followed by the choice applyConfig makes: the
\* converted value of the path, or the default when the path is not there
getJsonValueAt(config, parts, T, default) ==
    IF ~contains(config, parts[1])
    THEN default
    ELSE IF Len(parts) = 1
    THEN get_as(T, config[parts[1]])
    ELSE getJsonValueAt(config[parts[1]], Tail(parts), T, default)

\* test_Configurable::registerParams and test_person::registerParams
PersonDefault == ("name" :> JStr("Anna")) @@ ("age" :> JInteger(0, 25))
ConfigurableParams ==
    <<[path |-> "x", T |-> "double", default |-> JFloat(0, 20)],
      [path |-> "y", T |-> "int", default |-> JInteger(0, 10)],
      [path |-> "str", T |-> "string", default |-> JStr("default")],
      [path |-> "test_embedded_class_name", T |-> "string",
       default |-> JStr("test_person")],
      [path |-> "test_person", T |-> "json", default |-> PersonDefault]>>
PersonParams ==
    <<[path |-> "name", T |-> "string", default |-> JStr("default")],
      [path |-> "age", T |-> "int", default |-> JInteger(0, 0)]>>

RECURSIVE buildDefaultFrom(_, _, _)
\* Configurable::buildDefaultConfig: the defaults are set path by path
buildDefaultFrom(params, k, config) ==
    IF k > Len(params)
    THEN config
    ELSE buildDefaultFrom(params, k + 1,
             setJsonValue(config, splitPath[params[k].path], params[k].default))

RECURSIVE processUserFrom(_, _, _)
\* the loop of Configurable::processUserConfig over userConfig.items()
processUserFrom(user, k, processed) ==
    IF k > Len(KeyOrder)
    THEN processed
    ELSE processUserFrom(user, k + 1,
             IF KeyOrder[k] \in DOMAIN user
             THEN setJsonValue(processed, splitPath[KeyOrder[k]],
                               json_to_any(user[KeyOrder[k]]))
             ELSE processed)

\* Configurable::processUserConfig on any user configuration
processUserConfigPaths(user) ==
    IF ~is_object(user) THEN user ELSE processUserFrom(user, 1, JNil)

\* Configurable::initialize: [thrown, undefined, config (currentConfig), bound
\* (the bound variables by path)]
initialize(params, user) ==
    LET processed == processUserConfigPaths(user)
        defaults == buildDefaultFrom(params, 1, JNil)
        final == IF is_nil(processed) THEN defaults
                 ELSE merge_patch(defaults, processed)
        bound == [p \in {params[i].path : i \in 1 .. Len(params)} |->
                     LET prm == CHOOSE q \in {params[i] : i \in 1 .. Len(params)} :
                                    q.path = p
                     IN  getJsonValueAt(final, splitPath[p], prm.T, prm.default)]
    IN  IF is_thrown(processed) \/ is_undefined(processed)
        THEN [thrown |-> is_thrown(processed), undefined |-> is_undefined(processed),
              config |-> JNil, bound |-> << >>]
        ELSE [thrown |-> \E p \in DOMAIN bound : is_thrown(bound[p]),
              undefined |-> FALSE, config |-> final, bound |-> bound]

NoPerson == [has |-> FALSE, config |-> JNil, bound |-> << >>]

\* the constructor of test_Configurable: initialize(), then setUp(), which
\* constructs the embedded test_person from getConfig()["test_person"]
construct_test_Configurable(user) ==
    LET own == initialize(ConfigurableParams, user)
        sub == IF contains(own.config, "test_person")
               THEN own.config["test_person"] ELSE JNil
        embedded == own.bound["test_embedded_class_name"] = JStr("test_person")
        person == initialize(PersonParams, sub)
    IN  IF own.thrown \/ own.undefined
        THEN [thrown |-> own.thrown, undefined |-> own.undefined, config |-> JNil,
              bound |-> << >>, person |-> NoPerson]
        ELSE IF ~embedded
        THEN [thrown |-> FALSE, undefined |-> FALSE, config |-> own.config,
              bound |-> own.bound, person |-> NoPerson]
        ELSE [thrown |-> person.thrown, undefined |-> person.undefined,
              config |-> own.config, bound |-> own.bound,
              person |-> [has |-> TRUE, config |-> person.config,
                          bound |-> person.bound]]

\* the values a user configuration gives to each key
NameValues == {JStr("Ricardo"), JNil}
AgeValues == {JInteger(0, 30), JInteger(1, 30), JNil}
PersonObjects ==
    UNION {{f \in [K -> NameValues \cup AgeValues] :
               /\ "name" \in K => f["name"] \in NameValues
               /\ "age" \in K => f["age"] \in AgeValues} :
           K \in SUBSET {"name", "age"}}
ScalarValues == {JNil, JBoolean(TRUE), JInteger(0, 30), JInteger(1, 30),
                 JFloat(0, 7), JStr("Ricardo")}
ValuesOf(key) ==
    CASE key \in {"x", "y", "str"} -> ScalarValues
      [] key = "test_embedded_class_name" -> {JStr("test_person"), JStr("Ricardo")}
      [] key = "test_person" -> PersonObjects
      [] key = "test_person.name" -> NameValues
      [] key = "test_person.age" -> AgeValues \cup {JFloat(0, 7)}
      [] key \in {"", ".", ".."} -> {JInteger(0, 30), JNil}
UserKeys == {"x", "y", "str", "test_embedded_class_name", "test_person",
             "test_person.name", "test_person.age", "", ".", ".."}
NestedUserConfigs ==
    {JNil} \cup
    UNION {{f \in [K -> UNION {ValuesOf(k) : k \in UserKeys}] :
               \A k \in K : f[k] \in ValuesOf(k)} :
           K \in {S \in SUBSET UserKeys : Cardinality(S) <= MaxUserKeys}}

CfgIdle ==
    /\ cfg_user = JNil
    /\ cfg_pc = "idle"
    /\ cfg_config = JNil
    /\ cfg_bound = [own |-> << >>, person |-> NoPerson]

\* the constructor of test_Configurable on the user configuration
ConstructConfigurable ==
    /\ cfg_pc = "new"
    /\ LET r == construct_test_Configurable(cfg_user)
       IN  /\ cfg_pc' = IF r.undefined THEN "undefined"
                        ELSE IF r.thrown THEN "failed" ELSE "done"
           /\ cfg_config' = r.config
           /\ cfg_bound' = [own |-> r.bound, person |-> r.person]
    /\ UNCHANGED cfg_user
    /\ UNCHANGED <<tcVars, dwVars, mainVars, rwVars, ipVars, stVars, itpVars>>


(***************************************************************************)
(* Cameras of the image functions.  A CameraGeometry holds the pixel       *)
(* positions and the neighbour matrix; the tests build square cameras of   *)
(* unit pixels with pix_x = i and pix_y = j, row by row.                   *)
(***************************************************************************)
\* a set of pixels has at most MaxShape pixels picked one by one
MaxShape == 1

GridPixels(side) == 0 .. (side * side - 1)

pix_x_one_based(side, p) == (p % side) + 1
pix_x(side, p) == p % side
pix_y(side, p) == p \div side

\* two square pixels are neighbours iff their centres are at most
\* 1.1 * sqrt(pix_area) apart: for unit pixels, distance^2 <= 1.21
square_neighbours(side, p, q) ==
    LET dx == pix_x(side, p) - pix_x(side, q)
        dy == pix_y(side, p) - pix_y(side, q)
    IN  p # q /\ 100 * (dx * dx + dy * dy) <= 121

SquareCamera(side) ==
    [n |-> side * side,
     pix_x |-> [p \in GridPixels(side) |-> pix_x(side, p)],
     pix_y |-> [p \in GridPixels(side) |-> pix_y(side, p)],
     neigh_matrix |-> [e \in GridPixels(side) \X GridPixels(side) |->
                          IF square_neighbours(side, e[1], e[2]) THEN 1 ELSE 0]]

\* NPix pixels in a row with any symmetric adjacency
RowCamera(M) ==
    [n |-> NPix,
     pix_x |-> [p \in Pixels |-> p],
     pix_y |-> [p \in Pixels |-> 0],
     neigh_matrix |-> M]

\* the sides of the square cameras of test_image_processor.cpp, and a
\* camera of more than 50 pixels
GridSides == {4, 5, 8}

\* the pixel sets the images are built from
Row(side, j) == {p \in GridPixels(side) : pix_y(side, p) = j}
Diagonal(side) == {i * (side + 1) : i \in 0 .. (side - 1)}
\* the sets of at most k pixels
RECURSIVE PixelSets(_, _)
PixelSets(side, k) ==
    IF k = 0 THEN {{}}
    ELSE LET smaller == PixelSets(side, k - 1)
         IN  smaller \cup {S \cup {p} : S \in smaller, p \in GridPixels(side)}

GridShapes(side) ==
    {{}, GridPixels(side), Row(side, 0), Row(side, 0) \cup Row(side, side - 1),
     Diagonal(side)}
    \cup (IF side > 5 THEN {} ELSE PixelSets(side, MaxShape))

\* pixel values of the tests' images: the background and the set pixels
Backgrounds == {0, 1, 5}
Peaks == {1, 10}

GridImages(side) ==
    {[p \in GridPixels(side) |-> IF p \in S THEN hi ELSE lo] :
        S \in GridShapes(side), lo \in Backgrounds, hi \in Peaks}

\* Eigen's (image.array() > 0): the mask of a masked image
MaskOf(img) == [i \in DOMAIN img |-> img[i] > 0]
SetOf(b) == {i \in DOMAIN b : b[i]}

(***************************************************************************)
(* dilate (ImageCleaner.cpp).                                              *)
(***************************************************************************)
dilate_neighbours_only(M, m) ==
    LET neigh_true_count == MatVec(M, CastInt(m))
    IN  [i \in DOMAIN m |-> neigh_true_count[i] > 0]
dilate(M, m) ==
    LET neigh_true_count == MatVec(M, CastInt(m))
        has_true_neighbor == [i \in DOMAIN m |-> neigh_true_count[i] > 0]
    IN  [i \in DOMAIN m |-> m[i] \/ has_true_neighbor[i]]

NoOut == [op |-> "none", val |-> 0]

IPIdle ==
    /\ ip_camera = RowCamera(AdjacencyOf({}))
    /\ ip_image = [i \in Pixels |-> 0]
    /\ ip_pc = "idle"
    /\ ip_out = NoOut

\* ImageProcessor::dilate_image on the mask of the image
DilateImage ==
    /\ ip_pc = "input"
    /\ ip_out' = [op |-> "dilate",
                  val |-> dilate(ip_camera.neigh_matrix, MaskOf(ip_image))]
    /\ ip_pc' = "done"
    /\ UNCHANGED <<ip_camera, ip_image>>
    /\ UNCHANGED <<tcVars, dwVars, mainVars, rwVars, cfgVars, stVars, itpVars>>

(***************************************************************************)
(* ImageProcessor::morphology_parameter: the islands of the mask are the   *)
(* connected components of its pixels under the neighbour matrix, found    *)
(* by growing each island from its first pixel until nothing is added.     *)
(***************************************************************************)
Indicator(D, S) == [i \in D |-> i \in S]

RECURSIVE GrowIsland(_, _, _)
GrowIsland(M, m, S) ==
    LET grown == dilate(M, Indicator(DOMAIN m, S))
        T == S \cup {i \in DOMAIN m : m[i] /\ grown[i]}
    IN  IF T = S THEN S ELSE GrowIsland(M, m, T)

FirstOf(S) == CHOOSE i \in S : \A j \in S : i <= j

RECURSIVE IslandsOf(_, _, _)
IslandsOf(M, m, rest) ==
    IF rest = {} THEN {}
    ELSE LET island == GrowIsland(M, m, {FirstOf(rest)})
         IN  {island} \cup IslandsOf(M, m, rest \ island)

RECURSIVE SumOfSizes(_)
SumOfSizes(islands) ==
    IF islands = {} THEN 0
    ELSE LET I == CHOOSE J \in islands : TRUE
         IN  Cardinality(I) + SumOfSizes(islands \ {I})

morphology_parameter(cg, m) ==
    LET islands == IslandsOf(cg.neigh_matrix, m, SetOf(m))
    IN  [n_pixels |-> SumOfSizes(islands),
         n_islands |-> Cardinality(islands),
         n_small_islands |-> Cardinality({I \in islands : Cardinality(I) <= 5}),
         n_medium_islands |->
             Cardinality({I \in islands : Cardinality(I) > 5 /\ Cardinality(I) <= 50}),
         n_large_islands |-> Cardinality({I \in islands : Cardinality(I) > 50})]

MorphologyParameter ==
    /\ ip_pc = "input"
    /\ ip_out' = [op |-> "morphology",
                  val |-> morphology_parameter(ip_camera, MaskOf(ip_image))]
    /\ ip_pc' = "done"
    /\ UNCHANGED <<ip_camera, ip_image>>
    /\ UNCHANGED <<tcVars, dwVars, mainVars, rwVars, cfgVars, stVars, itpVars>>

(***************************************************************************)
(* ImageProcessor::leakage_parameter.  A ratio is a record num/den, or NaN.*)
(***************************************************************************)
NaN == [nan |-> TRUE, num |-> 0, den |-> 1]
Ratio(a, b) == [nan |-> FALSE, num |-> a, den |-> b]

RECURSIVE SumOver(_, _)
SumOver(f, S) ==
    IF S = {} THEN 0
    ELSE LET i == CHOOSE j \in S : TRUE IN f[i] + SumOver(f, S \ {i})

\* the number of neighbours of every pixel: neigh_matrix times the ones vector
neighbour_count(cg) == MatVec(cg.neigh_matrix, [i \in 0 .. (cg.n - 1) |-> 1])

MaxCount(cnt) == CHOOSE v \in {cnt[i] : i \in DOMAIN cnt} : \A i \in DOMAIN cnt : cnt[i] <= v

\* the outermost ring: the pixels with fewer neighbours than a pixel can have
border_pixel_mask(cg) ==
    LET cnt == neighbour_count(cg) IN [i \in DOMAIN cnt |-> cnt[i] < MaxCount(cnt)]

leakage_parameter(cg, masked_image) ==
    LET m == MaskOf(masked_image)
        outer1 == border_pixel_mask(cg)
        outer2 == dilate(cg.neigh_matrix, outer1)
        size == SumOver(CastInt(m), DOMAIN m)
        W == SumOver(masked_image, SetOf(m))
        in1 == SetOf(m) \cap SetOf(outer1)
        in2 == SetOf(m) \cap SetOf(outer2)
    IN  IF size = 0 \/ W = 0
        THEN [pixels_width_1 |-> NaN, pixels_width_2 |-> NaN,
              intensity_width_1 |-> NaN, intensity_width_2 |-> NaN]
        ELSE [pixels_width_1 |-> Ratio(Cardinality(in1), size),
              pixels_width_2 |-> Ratio(Cardinality(in2), size),
              intensity_width_1 |-> Ratio(SumOver(masked_image, in1), W),
              intensity_width_2 |-> Ratio(SumOver(masked_image, in2), W)]

LeakageParameter ==
    /\ ip_pc = "input"
    /\ ip_out' = [op |-> "leakage", val |-> leakage_parameter(ip_camera, ip_image)]
    /\ ip_pc' = "done"
    /\ UNCHANGED <<ip_camera, ip_image>>
    /\ UNCHANGED <<tcVars, dwVars, mainVars, rwVars, cfgVars, stVars, itpVars>>

(***************************************************************************)
(* ImageProcessor::hillas_parameter, in exact arithmetic: with W the total *)
(* intensity, the centre of gravity is (sx/W, sy/W) and the covariance is  *)
(* (cxx, cxy; cxy, cyy) / W^2.  length^2 and width^2 are its eigenvalues   *)
(* (tr +- sqrt(tr^2 - 4 det)) / 2, and psi the direction of the first.     *)
(***************************************************************************)
hillas_parameter(cg, masked_image) ==
    LET m == SetOf(MaskOf(masked_image))
        W == SumOver(masked_image, m)
        sx == SumOver([i \in m |-> masked_image[i] * cg.pix_x[i]], m)
        sy == SumOver([i \in m |-> masked_image[i] * cg.pix_y[i]], m)
        sxx == SumOver([i \in m |-> masked_image[i] * cg.pix_x[i] * cg.pix_x[i]], m)
        syy == SumOver([i \in m |-> masked_image[i] * cg.pix_y[i] * cg.pix_y[i]], m)
        sxy == SumOver([i \in m |-> masked_image[i] * cg.pix_x[i] * cg.pix_y[i]], m)
    IN  IF W <= 0 \/ Cardinality(m) < 3
        THEN [nan |-> TRUE, intensity |-> 0, x |-> NaN, y |-> NaN,
              cxx |-> 0, cyy |-> 0, cxy |-> 0]
        ELSE [nan |-> FALSE, intensity |-> W,
              x |-> Ratio(sx, W), y |-> Ratio(sy, W),
              cxx |-> W * sxx - sx * sx,
              cyy |-> W * syy - sy * sy,
              cxy |-> W * sxy - sx * sy]

HillasParameter ==
    /\ ip_pc = "input"
    /\ ip_out' = [op |-> "hillas", val |-> hillas_parameter(ip_camera, ip_image)]
    /\ ip_pc' = "done"
    /\ UNCHANGED <<ip_camera, ip_image>>
    /\ UNCHANGED <<tcVars, dwVars, mainVars, rwVars, cfgVars, stVars, itpVars>>

(***************************************************************************)
(* ImageProcessor::tailcuts_clean on the images of the cleaner's test: a   *)
(* constant background with one pixel at 10.                               *)
(***************************************************************************)
PeakImages(side) ==
    {[p \in GridPixels(side) |-> IF p = peak THEN 10 ELSE b] :
        peak \in GridPixels(side), b \in Backgrounds}

\* the thresholds of the test's calls
PictureThreshs == {1, 8}
BoundaryThreshs == {1, 2}

CleanImage ==
    /\ ip_pc = "input"
    /\ \E pt \in PictureThreshs, bt \in BoundaryThreshs, keep \in BOOLEAN,
          minn \in 0 .. MaxMinNeighbors :
           ip_out' = [op |-> "tailcuts_clean",
                      val |-> [mask |-> tailcuts_clean(ip_camera.neigh_matrix, ip_image,
                                                       pt, bt, keep, minn),
                               picture_thresh |-> pt,
                               boundary_thresh |-> bt,
                               keep_isolated_pixels |-> keep,
                               min_number_picture_neighbors |-> minn]]
    /\ ip_pc' = "done"
    /\ UNCHANGED <<ip_camera, ip_image>>
    /\ UNCHANGED <<tcVars, dwVars, mainVars, rwVars, cfgVars, stVars, itpVars>>

(***************************************************************************)
(* The stereo reconstructor (GeometryReconstructor::operator() of a        *)
(* HillasReconstructor): the telescopes of the event whose image           *)
(* parameters pass the quality predicate are selected; with fewer than 2   *)
(* of them, or with no pair of axes that are not parallel, the geometry is *)
(* emitted with is_valid = false.                                          *)
(***************************************************************************)
\* an event has dl1 parameters of at most MaxStereoTels telescopes
MaxStereoTels == 3

StereoTels == 1 .. MaxStereoTels

\* directions of the Hillas major axis, up to parallelism
Axes == {"a", "b", "c"}

StereoEvents ==
    UNION {[S -> [passes : BOOLEAN, axis : Axes]] : S \in SUBSET StereoTels}

\* ImageQuery on the telescope's parameters
selected_telescopes(ev) == {t \in DOMAIN ev : ev[t].passes}

enough_telescopes(sel) == Cardinality(sel) >= 2

\* the pairs whose axes are not parallel: those with a weight above 0
crossing_pairs(ev, sel) ==
    {p \in sel \X sel : p[1] < p[2] /\ ev[p[1]].axis # ev[p[2]].axis}

\* a reconstructor that solves for the direction without counting first
reconstruct_unguarded(ev) ==
    LET sel == selected_telescopes(ev)
    IN  IF crossing_pairs(ev, sel) = {}
        THEN [thrown |-> TRUE, is_valid |-> FALSE, telescopes |-> {}]
        ELSE [thrown |-> FALSE, is_valid |-> TRUE, telescopes |-> sel]
reconstruct(ev) ==
    LET sel == selected_telescopes(ev)
    IN  IF ~enough_telescopes(sel)
        THEN [thrown |-> FALSE, is_valid |-> FALSE, telescopes |-> {}]
        ELSE IF crossing_pairs(ev, sel) = {}
        THEN [thrown |-> FALSE, is_valid |-> FALSE, telescopes |-> {}]
        ELSE [thrown |-> FALSE, is_valid |-> TRUE, telescopes |-> sel]

NoGeometry == [is_valid |-> FALSE, telescopes |-> {}]

STIdle ==
    /\ st_event = << >>
    /\ st_pc = "idle"
    /\ st_geometry = NoGeometry

\* GeometryReconstructor::operator()(event)
Reconstruct ==
    /\ st_pc = "input"
    /\ LET r == reconstruct(st_event)
       IN  /\ st_pc' = IF r.thrown THEN "thrown" ELSE "done"
           /\ st_geometry' = [is_valid |-> r.is_valid, telescopes |-> r.telescopes]
    /\ UNCHANGED st_event
    /\ UNCHANGED <<tcVars, dwVars, mainVars, rwVars, cfgVars, ipVars, itpVars>>

(***************************************************************************)
(* interp (rpolator.c): the search for the interval of a coordinate in a   *)
(* monotonic table.  A table is [n, shape] with the points V(v, a) for     *)
(* a = 0 .. n-1; a coordinate is w + half/2 with an integer w, or NaN.     *)
(***************************************************************************)
\* the table sizes enumerated with every coordinate
MaxPoints == 4
\* for (i=1; i<=30; i++)
SearchIterations == 30
\* a table size for which the halvings of m take all the iterations
LargeTable == 2^SearchIterations

Shapes == {"up", "down", "square_up", "square_down"}

\* v[a]
V(v, a) ==
    CASE v.shape = "up" -> a
      [] v.shape = "down" -> -a
      [] v.shape = "square_up" -> a * a
      [] v.shape = "square_down" -> -(a * a)

Coordinate(w, half) == [nan |-> FALSE, w |-> w, half |-> half]
NaNCoordinate == [nan |-> TRUE, w |-> 0, half |-> 0]

\* the comparisons of the double x with a table point c: all false for NaN
x_le(x, c) == ~x.nan /\ (x.w < c \/ (x.w = c /\ x.half = 0))
x_ge(x, c) == ~x.nan /\ x.w >= c
x_gt(x, c) == ~x.nan /\ (x.w > c \/ (x.w = c /\ x.half = 1))

Fraction(num, den) == [num |-> num, den |-> den]
NoFraction == Fraction(0, 0)

\* (x-v[j-1])/(v[j]-v[j-1])
rpl_of(x, lo, hi) == Fraction(2 * (x.w - lo) + x.half, 2 * (hi - lo))

\* interp, lines 65-96: the coordinates at or beyond an edge
interp_edges(x, v) ==
    IF V(v, 0) < V(v, v.n - 1)
    THEN IF x_le(x, V(v, 0))
         THEN [returned |-> TRUE, ipl |-> 1, rpl |-> Fraction(0, 1), lm |-> 0]
         ELSE IF x_ge(x, V(v, v.n - 1))
         THEN [returned |-> TRUE, ipl |-> v.n - 1, rpl |-> Fraction(1, 1), lm |-> 0]
         ELSE [returned |-> FALSE, ipl |-> 0, rpl |-> NoFraction, lm |-> 0]
    ELSE IF x_ge(x, V(v, 0))
         THEN [returned |-> TRUE, ipl |-> 1, rpl |-> Fraction(0, 1), lm |-> 1]
         ELSE IF x_le(x, V(v, v.n - 1))
         THEN [returned |-> TRUE, ipl |-> v.n - 1, rpl |-> Fraction(1, 1), lm |-> 1]
         ELSE [returned |-> FALSE, ipl |-> 0, rpl |-> NoFraction, lm |-> 1]

\* interp, lines 102-118: one iteration of the search loop
interp_iteration(x, v, lm, l, m) ==
    LET j == IF l < 1 THEN 1 ELSE IF l > v.n - 1 THEN v.n - 1 ELSE l
        m1 == (m + 1) \div 2
    IN  IF x_ge(x, V(v, j + lm - 1)) /\ x_le(x, V(v, j - lm))
        THEN [returned |-> TRUE, ipl |-> j,
              rpl |-> IF V(v, j) # V(v, j - 1)
                      THEN rpl_of(x, V(v, j - 1), V(v, j))
                      ELSE Fraction(1, 2),
              l |-> l, m |-> m]
        ELSE [returned |-> FALSE, ipl |-> 0, rpl |-> NoFraction,
              l |-> IF x_gt(x, V(v, j - 1))
                    THEN l + (1 - 2 * lm) * m1
                    ELSE l - (1 - 2 * lm) * m1,
              m |-> m1]

ITPIdle ==
    /\ itp_v = [n |-> 2, shape |-> "up"]
    /\ itp_x = Coordinate(0, 0)
    /\ itp_pc = "idle"
    /\ itp_lm = 0
    /\ itp_i = 0
    /\ itp_l = 0
    /\ itp_m = 0
    /\ ipl = 0
    /\ rpl = NoFraction

\* interp up to the loop: the edges, then l = (n+1)/2-1 and m = (n+1)/2
InterpCall ==
    /\ itp_pc = "call"
    /\ LET r == interp_edges(itp_x, itp_v)
       IN  IF r.returned
           THEN /\ itp_pc' = "returned"
                /\ ipl' = r.ipl
                /\ rpl' = r.rpl
                /\ UNCHANGED <<itp_lm, itp_i, itp_l, itp_m>>
           ELSE /\ itp_pc' = "search"
                /\ itp_lm' = r.lm
                /\ itp_l' = (itp_v.n + 1) \div 2 - 1
                /\ itp_m' = (itp_v.n + 1) \div 2
                /\ itp_i' = 1
                /\ UNCHANGED <<ipl, rpl>>
    /\ UNCHANGED <<itp_v, itp_x>>
    /\ UNCHANGED <<tcVars, dwVars, mainVars, rwVars, cfgVars, ipVars, stVars>>

\* one iteration of for (i=1; i<=30; i++)
InterpIteration ==
    /\ itp_pc = "search"
    /\ itp_i <= SearchIterations
    /\ LET r == interp_iteration(itp_x, itp_v, itp_lm, itp_l, itp_m)
       IN  IF r.returned
           THEN /\ itp_pc' = "returned"
                /\ ipl' = r.ipl
                /\ rpl' = r.rpl
                /\ UNCHANGED <<itp_i, itp_l, itp_m>>
           ELSE /\ itp_i' = itp_i + 1
                /\ itp_l' = r.l
                /\ itp_m' = r.m
                /\ UNCHANGED <<itp_pc, ipl, rpl>>
    /\ UNCHANGED <<itp_v, itp_x, itp_lm>>
    /\ UNCHANGED <<tcVars, dwVars, mainVars, rwVars, cfgVars, ipVars, stVars>>

\* the loop has ended: fprintf(stderr,"Interpolation error.\n"), and interp
\* returns without having written *ipl and *rpl
InterpError ==
    /\ itp_pc = "search"
    /\ itp_i > SearchIterations
    /\ itp_pc' = "error"
    /\ UNCHANGED <<itp_v, itp_x, itp_lm, itp_i, itp_l, itp_m, ipl, rpl>>
    /\ UNCHANGED <<tcVars, dwVars, mainVars, rwVars, cfgVars, ipVars, stVars>>

\* the strictly monotonic tables of the model, and the coordinates asked of
\* each: every half step around a small table, and the half steps around the
\* first, the middle and the last points of a large one
Tables ==
    {[n |-> k, shape |-> sh] : k \in 2 .. MaxPoints, sh \in Shapes} \cup
    {[n |-> LargeTable, shape |-> sh] : sh \in {"up", "down"}}

ProbePoints(v) ==
    IF v.n <= MaxPoints
    THEN 0 .. (v.n - 1)
    ELSE {0, 1, v.n \div 2, v.n - 2, v.n - 1}

CoordinatesOf(v) ==
    {NaNCoordinate} \cup
    {Coordinate(V(v, a) + d, h) : a \in ProbePoints(v), d \in {-2, -1, 0, 1},
                                  h \in {0, 1}}

(***************************************************************************)
(* RootWriter (RootWriter.cpp): the per-telescope layers.                  *)
(***************************************************************************)
Tels == 1 .. NTels
TelLayers == {"r0", "r1", "dl0", "dl1", "dl2", "monitor"}
IndexName == [r0 |-> "r0_index", r1 |-> "r1_index", dl0 |-> "dl0_index",
              dl1 |-> "dl1_index", dl2 |-> "dl2_index", monitor |-> "monitor_index"]
IndexNames == {IndexName[l] : l \in TelLayers}
\* the names DL2Event::geometry is keyed by, in the order of the map
GeomNames == {"geomA", "geomB"}
GeomOrder == <<"geomA", "geomB">>
\* the array-level tables of write_simulation_shower and write_pointing
ArrayTables == {"shower", "pointing"}
TreeNames == TelLayers \cup IndexNames \cup GeomNames \cup ArrayTables

\* the path handed to get_or_create_directory for the trees of a layer
DirectoryOf ==
    [r0 |-> "/events/r0", r1 |-> "/events/r1", dl0 |-> "/events/dl0",
     dl1 |-> "/events/dl1", dl2 |-> "/events/dl2", monitor |-> "events"]

\* a disengaged optional<RootEventIndex>, and RootEventIndex()
NoIndex == [has |-> FALSE, event_id |-> 0, telescopes |-> {}]
RootEventIndex == [has |-> TRUE, event_id |-> 0, telescopes |-> {}]

\* what a tree reads when the object its branches were bound to has been moved
Garbage == [event_id |-> 0, reconstructor_name |-> "garbage"]

\* a layer of an event as the writers see it: absent, or its telescopes and,
\* for dl2, the reconstructors it holds a geometry of
LayerValues(l) ==
    {[has |-> FALSE, tels |-> {}, geometry |-> {}]} \cup
    {[has |-> TRUE, tels |-> t, geometry |-> g] :
        t \in SUBSET Tels, g \in IF l = "dl2" THEN SUBSET GeomNames ELSE {{}}}

RECURSIVE TelRows(_, _)
\* the rows the loop over the telescopes of a layer fills, in tel_id order
TelRows(id, tels) ==
    IF tels = {}
    THEN <<>>
    ELSE LET t == CHOOSE x \in tels : \A y \in tels : x <= y
         IN  <<[event_id |-> id, tel_id |-> t]>> \o TelRows(id, tels \ {t})

RWIdle ==
    /\ rw_pc = "idle"
    /\ rw_thrown = FALSE
    /\ rw_calls = 0
    /\ trees = {}
    /\ directories = [n \in {} |-> ""]
    /\ build_index = {}
    /\ index_object = [l \in TelLayers |-> NoIndex]
    /\ dl2_geometry = <<>>
    /\ tables = [n \in TreeNames |-> <<>>]
    /\ stored = {}
    /\ rw_written = [l \in TelLayers |-> <<>>]
    /\ root_pointing = <<>>

\* RootWriter::open on an output that can be created
RootOpen ==
    /\ rw_pc = "new"
    /\ rw_pc' = "open"
    /\ rw_thrown' = FALSE
    /\ UNCHANGED <<rw_calls, trees, directories, build_index, index_object,
                   dl2_geometry, tables, stored, rw_written,
                   root_pointing>>
    /\ UNCHANGED <<tcVars, dwVars, mainVars, cfgVars, ipVars, stVars, itpVars>>

\* variants of the registrations, for the sensitivity checks
RegisterIndex_with_index_table(l, create, bi) ==
    IF create THEN bi \cup {l, IndexName[l]} ELSE bi

RegisterLayer_without_index(l, dirs) ==
    [n \in DOMAIN dirs \cup {l} |-> IF n = l THEN DirectoryOf[l] ELSE dirs[n]]

\* the first write of a layer: its tree and its index tree are registered
RegisterLayer(l, dirs) ==
    [n \in DOMAIN dirs \cup {l, IndexName[l]} |->
        IF n \in {l, IndexName[l]} THEN DirectoryOf[l] ELSE dirs[n]]

\* build_index after the block that creates the trees of a layer
\* (build_index["r0"] = true, and so on for the six layers)
RegisterIndex(l, create, bi) ==
    IF create THEN bi \cup {l} ELSE bi

\* the stored index object after the block that creates the trees of a layer:
\* write_monitor assigns RootEventIndex() always, the others when it has no value
IndexAfterCreate(l, obj) ==
    IF l = "monitor" \/ ~obj.has THEN RootEventIndex ELSE obj

\* One geometry of write_dl2's first loop: the tree of the reconstructor is
\* created with a new element of array_event.dl2_geometry when it does not exist,
\* the event is assigned to the LAST element, and the reconstructor's tree is
\* filled from the element it was bound to. A push_back after that element was
\* created may have moved it: ub is what the tree then reads.
GeomStep(st, name, id, ub) ==
    LET fresh == name \notin st.trees
        objs1 == IF fresh
                 THEN Append(st.objs, [tree |-> name, moved |-> FALSE,
                                       value |-> [event_id |-> 0,
                                                  reconstructor_name |-> name]])
                 ELSE st.objs
        objs2 == IF fresh
                 THEN [k \in 1 .. Len(objs1) |->
                          IF k < Len(objs1) THEN [objs1[k] EXCEPT !.moved = TRUE]
                          ELSE objs1[k]]
                 ELSE objs1
        last == Len(objs2)
        objs3 == [objs2 EXCEPT ![last].value =
                     [event_id |-> id, reconstructor_name |-> name]]
        bound == CHOOSE k \in 1 .. last : objs3[k].tree = name
        row == IF objs3[bound].moved /\ ub = "garbage"
               THEN Garbage
               ELSE objs3[bound].value
    IN  [trees |-> st.trees \cup {name},
         dirs |-> IF fresh
                  THEN [n \in DOMAIN st.dirs \cup {name} |->
                           IF n = name THEN "/events/dl2/geometry" ELSE st.dirs[n]]
                  ELSE st.dirs,
         objs |-> objs3,
         tables |-> [st.tables EXCEPT ![name] = Append(@, row)]]

RECURSIVE GeomLoop(_, _, _, _, _)
\* write_dl2's loop over dl2.geometry, from the k-th name of the map's order
GeomLoop(st, k, geometry, id, ub) ==
    IF k > Len(GeomOrder)
    THEN st
    ELSE GeomLoop(IF GeomOrder[k] \in geometry
                  THEN GeomStep(st, GeomOrder[k], id, ub)
                  ELSE st,
                  k + 1, geometry, id, ub)

\* The body the six per-telescope writers share, for the layer l of an event
\* with the given event_id. The layer's row object is taken by reference, so its
\* tree receives the event's values; the index object is taken BY VALUE
\* (auto root_r0_index = array_event.r0_index.value()), so clear(), event_id and
\* push_back change a copy and the index tree is filled from the stored object.
WriteLayer(l, layer, id, ub) ==
    IF rw_pc = "new"
    THEN /\ rw_thrown' = TRUE
         /\ UNCHANGED <<rw_pc, trees, directories, build_index, index_object,
                        dl2_geometry, tables, stored, rw_written,
                   root_pointing>>
    ELSE IF ~layer.has
    THEN /\ rw_thrown' = FALSE
         /\ UNCHANGED <<rw_pc, trees, directories, build_index, index_object,
                        dl2_geometry, tables, stored, rw_written,
                   root_pointing>>
    ELSE LET st0 == [trees |-> trees, dirs |-> directories,
                     objs |-> dl2_geometry, tables |-> tables]
             st1 == GeomLoop(st0, 1, layer.geometry, id, ub)
             create == l \notin st1.trees
             index1 == IF create
                       THEN IndexAfterCreate(l, index_object[l])
                       ELSE index_object[l]
             index_row == [event_id |-> index1.event_id,
                           telescopes |-> index1.telescopes]
         IN  /\ rw_thrown' = FALSE
             /\ trees' = st1.trees \cup {l, IndexName[l]}
             /\ directories' = IF create THEN RegisterLayer(l, st1.dirs) ELSE st1.dirs
             /\ build_index' = RegisterIndex(l, create, build_index)
             /\ index_object' = [index_object EXCEPT ![l] = index1]
             /\ dl2_geometry' = st1.objs
             /\ tables' = [st1.tables EXCEPT
                             ![l] = @ \o TelRows(id, layer.tels),
                             ![IndexName[l]] = Append(@, index_row)]
             /\ rw_written' = [rw_written EXCEPT
                                 ![l] = Append(@, [event_id |-> id,
                                                   telescopes |-> layer.tels])]
             /\ UNCHANGED <<rw_pc, stored, root_pointing>>

WriteCall(l) ==
    /\ rw_pc \in {"new", "open"}
    /\ rw_calls < MaxWrites
    /\ rw_calls' = rw_calls + 1
    /\ \E layer \in LayerValues(l), ub \in {"stale", "garbage"} :
           WriteLayer(l, layer, rw_calls + 1, ub)
    /\ UNCHANGED <<tcVars, dwVars, mainVars, cfgVars, ipVars, stVars, itpVars>>

\* the simulation and the pointing layer of an event as the writers see it
ShowerValues == {[has |-> h] : h \in BOOLEAN}
PointingValues ==
    {[has |-> FALSE, tels |-> {}]} \cup {[has |-> TRUE, tels |-> t] : t \in SUBSET Tels}

\* the registration of an array-level tree: trees[name], directories[name]
RegisterTree(name, path, dirs) ==
    [n \in DOMAIN dirs \cup {name} |-> IF n = name THEN path ELSE dirs[n]]

RECURSIVE PointingEntries(_, _)
\* what the loop over pointing.tels pushes on tel_id, tel_az and tel_alt: one
\* entry per telescope, in tel_id order; of_event stands for the azimuth and
\* the altitude the event with that id holds for the telescope
PointingEntries(id, tels) ==
    IF tels = {}
    THEN <<>>
    ELSE LET t == CHOOSE x \in tels : \A y \in tels : x <= y
         IN  <<[tel_id |-> t, of_event |-> id]>> \o PointingEntries(id, tels \ {t})

\* the vectors of root_pointing after write_pointing's loop: the loop only
\* calls push_back, nothing empties the vectors between two events
PointingAfter(old, id, tels) == old \o PointingEntries(id, tels)

\* RootWriter::write_simulation_shower
write_simulation_shower ==
    /\ rw_pc \in {"new", "open"}
    /\ rw_calls < MaxWrites
    /\ rw_calls' = rw_calls + 1
    /\ \E sim \in ShowerValues :
           IF rw_pc = "new"
           THEN /\ rw_thrown' = TRUE
                /\ UNCHANGED <<trees, directories, tables>>
           ELSE IF ~sim.has
           THEN /\ rw_thrown' = FALSE
                /\ UNCHANGED <<trees, directories, tables>>
           ELSE /\ rw_thrown' = FALSE
                /\ trees' = trees \cup {"shower"}
                /\ directories' = IF "shower" \in trees
                                  THEN directories
                                  ELSE RegisterTree("shower", "/events/simulation",
                                                    directories)
                /\ tables' = [tables EXCEPT
                                !["shower"] = Append(@, [event_id |-> rw_calls + 1])]
    /\ UNCHANGED <<rw_pc, build_index, index_object, dl2_geometry, stored,
                   rw_written, root_pointing>>
    /\ UNCHANGED <<tcVars, dwVars, mainVars, cfgVars, ipVars, stVars, itpVars>>

\* RootWriter::write_pointing
write_pointing ==
    /\ rw_pc \in {"new", "open"}
    /\ rw_calls < MaxWrites
    /\ rw_calls' = rw_calls + 1
    /\ \E pointing \in PointingValues :
           IF rw_pc = "new"
           THEN /\ rw_thrown' = TRUE
                /\ UNCHANGED <<trees, directories, tables, root_pointing>>
           ELSE IF ~pointing.has
           THEN /\ rw_thrown' = FALSE
                /\ UNCHANGED <<trees, directories, tables, root_pointing>>
           ELSE LET vectors == PointingAfter(root_pointing, rw_calls + 1,
                                             pointing.tels)
                IN  /\ rw_thrown' = FALSE
                    /\ trees' = trees \cup {"pointing"}
                    /\ directories' = IF "pointing" \in trees
                                      THEN directories
                                      ELSE RegisterTree("pointing", "/events/",
                                                        directories)
                    /\ root_pointing' = vectors
                    /\ tables' = [tables EXCEPT
                                    !["pointing"] =
                                        Append(@, [event_id |-> rw_calls + 1,
                                                   telescopes |-> vectors])]
    /\ UNCHANGED <<rw_pc, build_index, index_object, dl2_geometry, stored,
                   rw_written>>
    /\ UNCHANGED <<tcVars, dwVars, mainVars, cfgVars, ipVars, stVars, itpVars>>

write_r0 == WriteCall("r0")
write_r1 == WriteCall("r1")
write_dl0 == WriteCall("dl0")
write_dl1 == WriteCall("dl1")
write_dl2 == WriteCall("dl2")
write_monitor == WriteCall("monitor")

\* RootWriter::close: every registered tree is written in the directory
\* registered for it, after BuildIndex when build_index holds true for it
RootClose ==
    /\ rw_pc = "open"
    /\ IF \E n \in trees : n \notin DOMAIN directories
       THEN /\ rw_pc' = "close_failed"
            /\ rw_thrown' = TRUE
            /\ stored' = stored
       ELSE /\ rw_pc' = "closed"
            /\ rw_thrown' = FALSE
            /\ stored' = {[tree |-> n, directory |-> directories[n],
                           indexed |-> n \in build_index] : n \in trees}
    /\ UNCHANGED <<rw_calls, trees, directories, build_index, index_object,
                   dl2_geometry, tables, rw_written,
                   root_pointing>>
    /\ UNCHANGED <<tcVars, dwVars, mainVars, cfgVars, ipVars, stVars, itpVars>>

RootInit ==
    /\ rw_pc = "new"
    /\ rw_thrown = FALSE
    /\ rw_calls = 0
    /\ trees = {}
    /\ directories = [n \in {} |-> ""]
    /\ build_index = {}
    /\ index_object = [l \in TelLayers |-> NoIndex]
    /\ dl2_geometry = <<>>
    /\ tables = [n \in TreeNames |-> <<>>]
    /\ stored = {}
    /\ rw_written = [l \in TelLayers |-> <<>>]
    /\ root_pointing = <<>>
    /\ TCIdle
    /\ CfgIdle
    /\ IPIdle
    /\ STIdle /\ ITPIdle
    /\ DWIdle
    /\ MainIdle

RootNext ==
    \/ RootOpen
    \/ write_r0
    \/ write_r1
    \/ write_dl0
    \/ write_dl1
    \/ write_dl2
    \/ write_monitor
    \/ write_simulation_shower
    \/ write_pointing
    \/ RootClose

SpecRoot == RootInit /\ [][RootNext]_vars

CfgInit ==
    /\ cfg_user \in NestedUserConfigs
    /\ cfg_pc = "new"
    /\ cfg_config = JNil
    /\ cfg_bound = [own |-> << >>, person |-> NoPerson]
    /\ TCIdle
    /\ DWIdle
    /\ MainIdle
    /\ RWIdle
    /\ IPIdle
    /\ STIdle /\ ITPIdle

CfgNext == ConstructConfigurable

SpecConfig == CfgInit /\ [][CfgNext]_vars

\* the members the setters of applyConfig assign
FlagsOf(values) == [k \in LayerFlags \cup OneShots |-> values[k]]

\* DataWriter's constructor: Configurable::initialize, then DataWriter::setUp.
\* src is the metadata the event source holds.
Construct ==
    /\ dw_pc = "new"
    /\ \E src \in SUBSET Metadata :
         LET fc == finalConfig(userConfig)
             values == applyConfig(fc)
             opened == open(output, values["overwrite"])
         IN  IF applyConfigThrows(fc)
             THEN /\ dw_pc' = "failed"
                  /\ UNCHANGED <<enabled, overwrite, file_writer, one_shot, output>>
             ELSE /\ enabled' = FlagsOf(values)
                  /\ overwrite' = values["overwrite"]
                  /\ output' = opened.output
                  /\ IF opened.thrown
                     THEN /\ dw_pc' = "failed"
                          /\ UNCHANGED <<file_writer, one_shot>>
                     ELSE /\ file_writer' = "open"
                          /\ one_shot' = setUp(FlagsOf(values), src)
                          /\ dw_pc' = IF FirstThrow(FlagsOf(values), src) = 0
                                      THEN "ready" ELSE "failed"
    /\ UNCHANGED <<userConfig, event, calls, absent_reads, event_written,
                   sim_shower_count>>
    /\ UNCHANGED <<tcVars, mainVars, rwVars, cfgVars, ipVars, stVars, itpVars>>

\* the outcomes an undefined read can have for this event (one where none is made)
UBFor(en, ev) == IF simulated_camera_unguarded(en, ev) THEN UBOutcomes ELSE {"zero"}

\* DataWriter::operator() on the next event of the source
Dispatch ==
    /\ dw_pc = "ready"
    /\ \E ev \in Events :
         \E ub \in UBFor(enabled, ev) :
           /\ event' = ev
           /\ IF file_writer = "null"
              THEN /\ calls' = NoCalls
                   /\ absent_reads' = {}
                   /\ dw_pc' = "called"
              ELSE /\ calls' = operator_call(enabled, ev, ub)
                   /\ absent_reads' = operator_call_absent_reads(enabled, ev)
                   /\ dw_pc' = IF operator_call_crashes(enabled, ev, ub)
                               THEN "crashed" ELSE "called"
    /\ event_written' = TRUE
    /\ UNCHANGED <<userConfig, enabled, overwrite, file_writer, one_shot, output,
                   sim_shower_count>>
    /\ UNCHANGED <<tcVars, mainVars, rwVars, cfgVars, ipVars, stVars, itpVars>>

\* the caller's loop drops the event and goes on to the next one
EventDone ==
    /\ dw_pc = "called"
    /\ dw_pc' = "ready"
    /\ event' = NoEvent
    /\ calls' = NoCalls
    /\ absent_reads' = {}
    /\ UNCHANGED <<userConfig, enabled, overwrite, file_writer, one_shot,
                   event_written, output, sim_shower_count>>
    /\ UNCHANGED <<tcVars, mainVars, rwVars, cfgVars, ipVars, stVars, itpVars>>

DWInit ==
    /\ userConfig \in UserConfigs
    /\ enabled = NoFlags
    /\ overwrite = FALSE
    /\ file_writer = "null"
    /\ dw_pc = "new"
    /\ one_shot = NoOneShot
    /\ event = NoEvent
    /\ calls = NoCalls
    /\ absent_reads = {}
    /\ event_written = FALSE
    /\ output \in {"absent", "old"}
    /\ sim_shower_count = 0
    /\ TCIdle
    /\ CfgIdle
    /\ IPIdle
    /\ STIdle /\ ITPIdle
    /\ RWIdle
    /\ MainIdle

DWNext == Construct \/ Dispatch \/ EventDone

SpecWriter == DWInit /\ [][DWNext]_vars

(***************************************************************************)
(* The event loop of hillas_reco reads event.dl2->geometry, and for a      *)
(* valid geometry event.simulation->shower.energy, without has_value().    *)
(* ub is what the read of an absent dl2 does.                              *)
(***************************************************************************)
HistUB(ev) == IF "dl2" \in ev.present THEN {"zero"} ELSE UBOutcomes

histogram_fills(ev, ub) ==
    IF "dl2" \in ev.present THEN ev.hillas_valid ELSE ub = "nonzero"

histogram_crashes(ev, ub) == "dl2" \notin ev.present /\ ub = "crash"

histogram_absent_reads(ev, ub) ==
    (IF "dl2" \notin ev.present THEN {<<"main", "dl2">>} ELSE {})
    \cup (IF histogram_fills(ev, ub) /\ "simulation" \notin ev.present
          THEN {<<"main", "simulation">>} ELSE {})

(***************************************************************************)
(* DatabaseWriter::writeSimulatedShowerData: a row is appended for an      *)
(* event with a simulation layer; the row reads event.pointing without     *)
(* has_value().                                                            *)
(***************************************************************************)
DbUB(ev) ==
    IF "simulation" \in ev.present /\ "pointing" \notin ev.present
    THEN UBOutcomes ELSE {"zero"}

writeSimulatedShowerData_absent_reads(ev) ==
    IF "simulation" \in ev.present /\ "pointing" \notin ev.present
    THEN {<<"DatabaseWriter::writeSimulatedShowerData", "pointing">>}
    ELSE {}

writeSimulatedShowerData_crashes(ev, ub) ==
    "simulation" \in ev.present /\ "pointing" \notin ev.present /\ ub = "crash"

writeSimulatedShowerData_count(ev, count) ==
    IF "simulation" \in ev.present
    THEN IF count + 1 >= BATCH_SIZE THEN 0 ELSE count + 1
    ELSE count

(***************************************************************************)
(* hillas_reco: the configurations of the data_writer section.             *)
(***************************************************************************)
\* default_config()["data_writer"], the boolean keys DataWriter reads and
\* write_metaparam, which DataWriter does not register
default_config ==
    [k \in BoolParams \cup {"write_metaparam"} |->
        JBool(k \in {"overwrite", "write_simulation_shower", "write_simulated_camera",
                     "write_dl1", "write_dl2", "write_pointing", "write_subarray"})]

\* the data_writer sections of the configuration files given with -c
FileConfigs ==
    { JNull,
      [overwrite |-> JBool(FALSE)],
      [overwrite |-> JBool(FALSE), write_dl1 |-> JBool(TRUE)],
      [write_dl1 |-> JString],
      [write_subarray |-> JNull, write_atmosphere_model |-> JBool(TRUE)],
      [bogus |-> JBool(TRUE), write_simulated_camera |-> JBool(FALSE)] }

Stages == {"calibrator", "image_processor", "shower_processor", "data_writer"}

\* the events that reach the data writer: the source's r1 and pointing, the
\* calibrator's dl1, and possibly a simulation layer and a dl2 layer
MainEvents == {e \in Events : e.present \ {"simulation", "dl2"} = {"r1", "pointing", "dl1"}}

ArgCases == {"ok_default", "ok_config", "help", "cli_parse_error", "no_input",
             "count_mismatch", "config_unopenable", "config_unparseable",
             "bad_subarray"}

\* main, lines 105-177: the outcome of the argument and configuration checks:
\* "loop", "exit0" (help), "exit1", or "abort" (json::parse_error is thrown by
\* `f >> config` outside any try)
start_outcome(a) ==
    CASE a \in {"ok_default", "ok_config"} -> "loop"
      [] a = "help" -> "exit0"
      [] a = "config_unparseable" -> "abort"
      [] OTHER -> "exit1"

\* the catch handler of the file loop: `continue`, so the next pair
after_exception_same_file(i) == i
after_exception(i) == i + 1

\* the DataWriter of a file is destroyed at the end of the try block
DropWriter ==
    /\ enabled' = NoFlags
    /\ overwrite' = FALSE
    /\ file_writer' = "null"
    /\ dw_pc' = "new"
    /\ one_shot' = NoOneShot
    /\ event' = NoEvent
    /\ calls' = NoCalls
    /\ event_written' = FALSE

MainStart ==
    /\ main_pc = "start"
    /\ LET o == start_outcome(args)
       IN  /\ main_pc' = CASE o = "loop" -> "file"
                             [] o \in {"exit0", "exit1"} -> "done"
                             [] OTHER -> "crashed"
           /\ exit_code' = CASE o = "exit1" -> 1 [] o = "exit0" -> 0
                               [] OTHER -> exit_code
    /\ file_i' = 1
    /\ UNCHANGED <<args, n_files, files>>
    /\ UNCHANGED <<tcVars, dwVars, rwVars, cfgVars, ipVars, stVars, itpVars>>

\* main, lines 181-204: the source and the processors of pair file_i are
\* created; existed, source_ok and src are what the pair is like
BeginFile ==
    /\ main_pc = "file"
    /\ file_i <= n_files
    /\ \E existed \in BOOLEAN, source_ok \in BOOLEAN :
       \E src \in IF source_ok THEN SUBSET Metadata ELSE {{}} :
         LET out0 == IF existed THEN "old" ELSE "absent"
             f0 == [NoFile EXCEPT !.existed = existed, !.out = out0]
             fc == finalConfig(userConfig)
             values == applyConfig(fc)
             opened == open(out0, values["overwrite"])
             thrown == \/ ~source_ok
                       \/ applyConfigThrows(fc)
                       \/ opened.thrown
                       \/ FirstThrow(FlagsOf(values), src) # 0
             reached_open == source_ok /\ ~applyConfigThrows(fc)
             did_open == reached_open /\ ~opened.thrown
             out1 == IF reached_open THEN opened.output ELSE out0
         IN  IF thrown
             THEN /\ files' = [files EXCEPT ![file_i] =
                                  [f0 EXCEPT !.out = out1, !.tried = reached_open,
                                             !.opened = did_open,
                                             !.end = IF source_ok THEN "setup_error"
                                                     ELSE "source_error"]]
                  /\ file_i' = after_exception(file_i)
                  /\ output' = out1
                  /\ UNCHANGED <<main_pc, enabled, overwrite, file_writer, dw_pc,
                                 one_shot>>
             ELSE /\ files' = [files EXCEPT ![file_i] =
                                  [f0 EXCEPT !.out = out1, !.tried = TRUE,
                                             !.opened = TRUE]]
                  /\ main_pc' = "events"
                  /\ enabled' = FlagsOf(values)
                  /\ overwrite' = values["overwrite"]
                  /\ file_writer' = "open"
                  /\ dw_pc' = "ready"
                  /\ one_shot' = setUp(FlagsOf(values), src)
                  /\ output' = out1
                  /\ UNCHANGED file_i
    /\ absent_reads' = {}
    /\ UNCHANGED <<args, exit_code, n_files>>
    /\ UNCHANGED <<userConfig, event, calls, event_written, sim_shower_count>>
    /\ UNCHANGED <<tcVars, rwVars, cfgVars, ipVars, stVars, itpVars>>

\* main, lines 207-222: one iteration of the event loop, for at most MaxEvents
\* events of a file; failing is the stage that throws for this event, if any
ProcessEvent ==
    /\ main_pc = "events"
    /\ files[file_i].yielded < MaxEvents
    /\ \E failing \in {"none", "source"} \cup Stages :
       \E ev \in IF failing = "none" THEN MainEvents ELSE {NoEvent} :
         \E ub1 \in IF failing = "none" THEN UBFor(enabled, ev) ELSE {"zero"},
            ub2 \in IF failing = "none" THEN HistUB(ev) ELSE {"zero"} :
           LET f == files[file_i]
               ub_a == IF failing = "none" THEN ub1 ELSE "zero"
               ub_b == IF failing = "none" /\ ~operator_call_crashes(enabled, ev, ub_a)
                       THEN ub2 ELSE "zero"
           IN  CASE failing = "source" ->
                      /\ files' = [files EXCEPT ![file_i] = [f EXCEPT !.end = "source_error"]]
                      /\ file_i' = after_exception(file_i)
                      /\ main_pc' = "file"
                      /\ absent_reads' = {}
                      /\ DropWriter
                 [] failing \in Stages ->
                      /\ files' = [files EXCEPT ![file_i] =
                                      [f EXCEPT !.yielded = @ + 1, !.end = "stage_error"]]
                      /\ file_i' = after_exception(file_i)
                      /\ main_pc' = "file"
                      /\ absent_reads' = {}
                      /\ DropWriter
                 [] OTHER ->
                      IF operator_call_crashes(enabled, ev, ub_a)
                      THEN /\ files' = [files EXCEPT ![file_i] =
                                           [f EXCEPT !.yielded = @ + 1]]
                           /\ main_pc' = "crashed"
                           /\ absent_reads' = operator_call_absent_reads(enabled, ev)
                           /\ dw_pc' = "crashed"
                           /\ UNCHANGED <<file_i, enabled, overwrite, file_writer,
                                          one_shot, event, calls, event_written>>
                      ELSE /\ files' = [files EXCEPT ![file_i] =
                                           [f EXCEPT !.yielded = @ + 1, !.written = @ + 1]]
                           /\ main_pc' = IF histogram_crashes(ev, ub_b)
                                         THEN "crashed" ELSE "events"
                           /\ absent_reads' = operator_call_absent_reads(enabled, ev)
                                                  \cup histogram_absent_reads(ev, ub_b)
                           /\ event_written' = TRUE
                           /\ UNCHANGED <<file_i, enabled, overwrite, file_writer, dw_pc,
                                          one_shot, event, calls>>
    /\ UNCHANGED <<args, exit_code, n_files>>
    /\ UNCHANGED <<userConfig, output, sim_shower_count>>
    /\ UNCHANGED <<tcVars, rwVars, cfgVars, ipVars, stVars, itpVars>>

\* main, lines 224-241: the source is exhausted; the statistics are written
\* and the writer is closed (RootWriter::close writes the trees)
FinishFile ==
    /\ main_pc = "events"
    /\ files' = [files EXCEPT ![file_i] =
                    [@ EXCEPT !.out = "closed", !.closed = TRUE, !.end = "eof"]]
    /\ output' = "closed"
    /\ file_i' = file_i + 1
    /\ main_pc' = "file"
    /\ absent_reads' = {}
    /\ DropWriter
    /\ UNCHANGED <<args, exit_code, n_files>>
    /\ UNCHANGED <<userConfig, sim_shower_count>>
    /\ UNCHANGED <<tcVars, rwVars, cfgVars, ipVars, stVars, itpVars>>

\* main, lines 250-251
MainReturn ==
    /\ main_pc = "file"
    /\ file_i > n_files
    /\ main_pc' = "done"
    /\ exit_code' = 0
    /\ UNCHANGED <<args, n_files, file_i, files>>
    /\ UNCHANGED <<tcVars, dwVars, rwVars, cfgVars, ipVars, stVars, itpVars>>

MainInit ==
    /\ args \in ArgCases
    /\ main_pc = "start"
    /\ exit_code = -1
    /\ n_files \in IF args \in {"no_input", "count_mismatch"} THEN {0} ELSE 1 .. MaxFiles
    /\ file_i = 0
    /\ files = [i \in 1 .. MaxFiles |-> NoFile]
    /\ userConfig \in CASE args = "ok_default" -> {default_config}
                        [] args = "ok_config" -> FileConfigs
                        [] OTHER -> {JNull}
    /\ enabled = NoFlags
    /\ overwrite = FALSE
    /\ file_writer = "null"
    /\ dw_pc = "new"
    /\ one_shot = NoOneShot
    /\ event = NoEvent
    /\ calls = NoCalls
    /\ absent_reads = {}
    /\ event_written = FALSE
    /\ output = "absent"
    /\ sim_shower_count = 0
    /\ TCIdle
    /\ CfgIdle
    /\ IPIdle
    /\ STIdle /\ ITPIdle
    /\ RWIdle

MainNext == MainStart \/ BeginFile \/ ProcessEvent \/ FinishFile \/ MainReturn

SpecMain == MainInit /\ [][MainNext]_vars

(***************************************************************************)
(* The three places that read optional layers of an event, each on any     *)
(* event, for a constructed DataWriter.                                    *)
(***************************************************************************)
HistogramFill ==
    /\ dw_pc = "ready"
    /\ \E ev \in Events :
         \E ub \in HistUB(ev) :
           /\ event' = ev
           /\ absent_reads' = histogram_absent_reads(ev, ub)
           /\ dw_pc' = IF histogram_crashes(ev, ub) THEN "crashed" ELSE "called"
    /\ UNCHANGED <<userConfig, enabled, overwrite, file_writer, one_shot, calls,
                   event_written, output, sim_shower_count>>
    /\ UNCHANGED <<tcVars, mainVars, rwVars, cfgVars, ipVars, stVars, itpVars>>

DBWrite ==
    /\ dw_pc = "ready"
    /\ sim_shower_count < MaxRows
    /\ \E ev \in Events :
         \E ub \in DbUB(ev) :
           /\ event' = ev
           /\ absent_reads' = writeSimulatedShowerData_absent_reads(ev)
           /\ dw_pc' = IF writeSimulatedShowerData_crashes(ev, ub)
                       THEN "crashed" ELSE "called"
           /\ sim_shower_count' = writeSimulatedShowerData_count(ev, sim_shower_count)
    /\ UNCHANGED <<userConfig, enabled, overwrite, file_writer, one_shot, calls,
                   event_written, output>>
    /\ UNCHANGED <<tcVars, mainVars, rwVars, cfgVars, ipVars, stVars, itpVars>>

\* the writer of the event loop is configured with at most one flag overridden
PresenceConfigs == {u \in UserConfigs : is_null(u) \/ Cardinality(DOMAIN u) <= 1}

PresenceInit ==
    /\ userConfig \in PresenceConfigs
    /\ enabled = FlagsOf(applyConfig(finalConfig(userConfig)))
    /\ overwrite = applyConfig(finalConfig(userConfig))["overwrite"]
    /\ file_writer = "open"
    /\ dw_pc = "ready"
    /\ one_shot = setUp(enabled, Metadata)
    /\ event = NoEvent
    /\ calls = NoCalls
    /\ absent_reads = {}
    /\ event_written = FALSE
    /\ output = "new"
    /\ sim_shower_count = 0
    /\ TCIdle
    /\ CfgIdle
    /\ IPIdle
    /\ STIdle /\ ITPIdle
    /\ RWIdle
    /\ MainIdle

PresenceNext == Dispatch \/ HistogramFill \/ DBWrite \/ EventDone

SpecPresence == PresenceInit /\ [][PresenceNext]_vars

(***************************************************************************)
(* The cleaner as a state machine: the inputs are drawn, then cleaned.     *)
(***************************************************************************)
TCStart ==
    /\ neigh_matrix \in Cameras
    /\ image \in [Pixels -> 0 .. MaxVal]
    /\ picture_thresh \in 1 .. MaxVal
    /\ boundary_thresh \in 1 .. MaxVal
    /\ keep_isolated_pixels \in BOOLEAN
    /\ min_number_picture_neighbors \in 0 .. MaxMinNeighbors
    /\ mask = NoMask
    /\ tc_pc = "input"

Clean ==
    /\ tc_pc = "input"
    /\ mask' = tailcuts_clean(neigh_matrix, image, picture_thresh, boundary_thresh,
                              keep_isolated_pixels, min_number_picture_neighbors)
    /\ tc_pc' = "done"
    /\ UNCHANGED <<neigh_matrix, image, picture_thresh, boundary_thresh,
                   keep_isolated_pixels, min_number_picture_neighbors>>
    /\ UNCHANGED <<dwVars, mainVars, rwVars, cfgVars, ipVars, stVars, itpVars>>

TCInit == TCStart /\ DWIdle /\ MainIdle /\ RWIdle /\ CfgIdle /\ IPIdle /\ STIdle /\ ITPIdle

TCNext == Clean

SpecTailcuts == TCInit /\ [][TCNext]_vars

(***************************************************************************)
(* The image functions as a state machine: a camera and an image are       *)
(* drawn, then one of the functions is called on them.                     *)
(***************************************************************************)
ImageInputs ==
    {[camera |-> RowCamera(M), image |-> img] :
        M \in Cameras, img \in [Pixels -> 0 .. MaxVal]}
    \cup UNION {{[camera |-> SquareCamera(side), image |-> img] :
                    img \in GridImages(side)} : side \in GridSides}

IPInit ==
    /\ \E in \in ImageInputs : ip_camera = in.camera /\ ip_image = in.image
    /\ ip_pc = "input"
    /\ ip_out = NoOut
    /\ TCIdle /\ DWIdle /\ MainIdle /\ RWIdle /\ CfgIdle /\ STIdle /\ ITPIdle

IPNext == DilateImage \/ MorphologyParameter \/ LeakageParameter \/ HillasParameter

SpecImage == IPInit /\ [][IPNext]_vars

(***************************************************************************)
(* The cleaner on the square cameras: a one-peak image is drawn, then      *)
(* cleaned with the thresholds of a call.                                  *)
(***************************************************************************)
PeakInit ==
    /\ \E side \in {4, 5} :
           /\ ip_camera = SquareCamera(side)
           /\ ip_image \in PeakImages(side)
    /\ ip_pc = "input"
    /\ ip_out = NoOut
    /\ TCIdle /\ DWIdle /\ MainIdle /\ RWIdle /\ CfgIdle /\ STIdle /\ ITPIdle

PeakNext == CleanImage

SpecPeak == PeakInit /\ [][PeakNext]_vars

(***************************************************************************)
(* The stereo reconstructor as a state machine: an event is drawn, then    *)
(* reconstructed.                                                          *)
(***************************************************************************)
STInit ==
    /\ st_event \in StereoEvents
    /\ st_pc = "input"
    /\ st_geometry = NoGeometry
    /\ TCIdle /\ DWIdle /\ MainIdle /\ RWIdle /\ CfgIdle /\ IPIdle /\ ITPIdle

STNext == Reconstruct

SpecStereo == STInit /\ [][STNext]_vars

(***************************************************************************)
(* interp as a state machine: a table and a coordinate are drawn, then the *)
(* call runs iteration by iteration.                                       *)
(***************************************************************************)
ItpInit ==
    /\ itp_v \in Tables
    /\ itp_x \in CoordinatesOf(itp_v)
    /\ itp_pc = "call"
    /\ itp_lm = 0
    /\ itp_i = 0
    /\ itp_l = 0
    /\ itp_m = 0
    /\ ipl = 0
    /\ rpl = NoFraction
    /\ TCIdle /\ DWIdle /\ MainIdle /\ RWIdle /\ CfgIdle /\ IPIdle /\ STIdle

ItpNext ==
    \/ InterpCall
    \/ InterpIteration
    \/ InterpError

SpecInterp == ItpInit /\ [][ItpNext]_vars

(***************************************************************************)
(* The sets of section 4.1, written from the image and the adjacency.      *)
(***************************************************************************)
N(i) == {j \in Pixels : neigh_matrix[<<i, j>>] = 1}
neighbors_of(S) == {i \in Pixels : Cardinality(N(i) \cap S) > 0}
SetP == {i \in Pixels : image[i] >= picture_thresh}
SetB == {i \in Pixels : image[i] >= boundary_thresh}
SetPprime ==
    IF keep_isolated_pixels \/ min_number_picture_neighbors = 0
    THEN SetP
    ELSE {i \in SetP : Cardinality(N(i) \cap SetP) >= min_number_picture_neighbors}
MaskSet == {i \in Pixels : mask[i]}

\* (a) of C1: a picture pixel that meets the picture-neighbour constraint
IsPicturePixel(i) ==
    /\ image[i] >= picture_thresh
    /\ \/ keep_isolated_pixels
       \/ min_number_picture_neighbors = 0
       \/ Cardinality({j \in N(i) : image[j] >= picture_thresh})
              >= min_number_picture_neighbors

\* C1: with boundary_thresh <= picture_thresh every pixel of the returned mask
\* is a picture pixel meeting the neighbour constraint, or is at least
\* boundary_thresh and adjacent to such a picture pixel.
C1_MaskPixelsJustified ==
    (tc_pc = "done" /\ boundary_thresh <= picture_thresh) =>
        \A i \in Pixels :
            mask[i] =>
                \/ IsPicturePixel(i)
                \/ /\ image[i] >= boundary_thresh
                   /\ \E j \in N(i) : IsPicturePixel(j)

\* a cleaned image whose mask holds a picture pixel and a boundary-only pixel,
\* with isolated pixels dropped and a neighbour constraint of at least one
C1_Witness ==
    /\ tc_pc = "done"
    /\ boundary_thresh < picture_thresh
    /\ ~keep_isolated_pixels
    /\ min_number_picture_neighbors >= 1
    /\ \E i \in Pixels : mask[i] /\ image[i] >= picture_thresh
    /\ \E i \in Pixels : mask[i] /\ image[i] < picture_thresh

\* C2: the returned mask is the set expression of section 4.1, for every
\* image, adjacency and parameter choice.
C2_MaskIsSetExpression ==
    tc_pc = "done" =>
        MaskSet = IF keep_isolated_pixels
                  THEN (SetB \cap neighbors_of(SetPprime)) \cup SetPprime
                  ELSE (SetB \cap neighbors_of(SetPprime))
                           \cup (SetPprime \cap neighbors_of(SetB))

\* a cleaned image where the neighbour constraint removes a picture candidate
\* and the mask is neither empty nor full
C2_Witness ==
    /\ tc_pc = "done"
    /\ ~keep_isolated_pixels
    /\ min_number_picture_neighbors >= 1
    /\ SetPprime # SetP
    /\ SetPprime # {}
    /\ MaskSet # {}
    /\ MaskSet # Pixels


(***************************************************************************)
(* Claims about DataWriter (SpecWriter).                                   *)
(***************************************************************************)
\* the layer a backend method writes is present on the event
Present(ev, m) ==
    IF m = "write_simulated_camera"
    THEN "simulation" \in ev.present /\ ev.sim_tels
    ELSE LayerOf(m) \in ev.present

\* C3: for each event handed to operator() and each data layer, the backend's
\* write method is invoked exactly once if the layer's flag is enabled and the
\* layer is present on the event, and not at all otherwise.
C3_EachLayerWrittenOnce ==
    dw_pc \in {"called", "crashed"} =>
        \A m \in LayerFlags :
            calls[m] = IF enabled[m] /\ Present(event, m) THEN 1 ELSE 0

\* C10: each enabled one-shot write has been emitted exactly once, and each
\* disabled one never, by every constructed DataWriter; the one-shot writes are
\* emitted by the constructor only, on an opened backend and before any event
\* has been dispatched.
C10_OneShotCounts ==
    /\ dw_pc \in {"ready", "called", "crashed"} =>
           /\ file_writer = "open"
           /\ \A m \in OneShots : one_shot[m] = IF enabled[m] THEN 1 ELSE 0
    /\ \A m \in OneShots : one_shot[m] > 0 => enabled[m] /\ file_writer = "open"

C10_OneShotStep ==
    one_shot' # one_shot =>
        /\ dw_pc = "new"
        /\ ~event_written
        /\ file_writer' = "open"
        /\ output' = "new"

C10_OneShotOnceAtOpen == [](C10_OneShotCounts) /\ [][C10_OneShotStep]_vars

\* a writer that emitted one one-shot write and not another, and has since
\* dispatched an event with a per-event write
C10_Witness ==
    /\ dw_pc = "called"
    /\ event_written
    /\ one_shot["write_subarray"] = 1
    /\ one_shot["write_atmosphere_model"] = 0
    /\ calls["write_dl1"] = 1

\* C9: no field of an absent optional layer is read by DataWriter::operator(),
\* by the event loop of hillas_reco or by writeSimulatedShowerData.
C9_NoAbsentLayerRead == absent_reads = {}

(***************************************************************************)
(* Claims about hillas_reco (SpecMain).                                    *)
(***************************************************************************)
ArgsOk == args \in {"ok_default", "ok_config"}

C6_OpenedWritersClosed ==
    main_pc = "done" => \A i \in 1 .. MaxFiles : files[i].opened => files[i].closed

\* the value of overwrite the configuration gives the DataWriter
OverwriteOf == applyConfig(finalConfig(userConfig))["overwrite"]

\* C7: opening an output that exists truncates it and succeeds when overwrite
\* is true; when overwrite is false it fails and leaves the output as it was,
\* no event of that file is written and the file loop goes on to the next pair.
C7_OpenExistingOutput ==
    \A i \in 1 .. MaxFiles :
        (files[i].tried /\ files[i].existed) =>
            IF OverwriteOf
            THEN files[i].opened /\ files[i].out # "old"
            ELSE /\ ~files[i].opened
                 /\ files[i].out = "old"
                 /\ files[i].yielded = 0
                 /\ files[i].written = 0
                 /\ files[i].end = "setup_error"
                 /\ file_i > i

\* the first output existed and was refused, the second was written and closed
C7_Witness ==
    /\ files[1].existed /\ files[1].tried /\ ~files[1].opened
    /\ files[1].out = "old"
    /\ files[2].closed
    /\ files[2].written >= 1

UnknownKeys(u) == IF is_null(u) THEN {} ELSE DOMAIN u \ BoolParams
WrongTyped(u) ==
    ~is_null(u) /\ \E k \in DOMAIN u \cap BoolParams : u[k].t \notin {"boolean", "null"}
Known(u) ==
    IF is_null(u) \/ DOMAIN u \cap BoolParams = {}
    THEN JNull
    ELSE [k \in DOMAIN u \cap BoolParams |-> u[k]]

\* C8 as stated: with an unrecognised option or a value of the wrong type in the
\* configuration no event is processed and the exit code is 1.
C8_BadConfigExits1 ==
    (ArgsOk /\ (UnknownKeys(userConfig) # {} \/ WrongTyped(userConfig))) =>
        /\ \A i \in 1 .. MaxFiles : files[i].yielded = 0
        /\ main_pc = "done" => exit_code = 1

\* C8 amended: an unrecognised option is ignored (the members are those the
\* configuration without it gives, and no construction fails before open);
\* a value that is no boolean for a boolean parameter makes the construction
\* fail for every file before the output is opened, so no event is processed;
\* the exit code is 0 either way.
C8_BadConfigTolerated ==
    ArgsOk =>
        /\ main_pc = "done" => exit_code = 0
        /\ WrongTyped(userConfig) =>
               \A i \in 1 .. MaxFiles :
                   /\ ~files[i].tried
                   /\ files[i].yielded = 0
                   /\ files[i].end \in {"none", "setup_error", "source_error"}
        /\ ~WrongTyped(userConfig) =>
               /\ dw_pc # "new" =>
                      enabled = FlagsOf(applyConfig(finalConfig(Known(userConfig))))
               /\ \A i \in 1 .. MaxFiles :
                      files[i].end = "setup_error" => files[i].tried

\* with the default configuration, which carries the unregistered key
\* write_metaparam, a file was processed to its end and main returned 0
C8_Witness ==
    /\ UnknownKeys(userConfig) # {}
    /\ main_pc = "done"
    /\ exit_code = 0
    /\ files[1].end = "eof"
    /\ files[1].written >= 1

(***************************************************************************)
(* Claims about RootWriter (SpecRoot).                                     *)
(***************************************************************************)
\* C4: on an open RootWriter the index table of each per-telescope layer holds
\* one row per written event, carrying the event's event_id and exactly the
\* telescope ids present in that layer of the event.
C4_IndexRowsMatchEvents ==
    rw_pc = "open" =>
        \A l \in TelLayers : tables[IndexName[l]] = rw_written[l]

\* the argument and setup errors C11 lists, with the errors of the command
\* line parser
StartErrors == {"cli_parse_error", "no_input", "count_mismatch",
                "config_unopenable", "bad_subarray"}

\* C11: the command ends with exit code 1, having processed no file, exactly on
\* an argument or setup error; otherwise every input/output pair is taken up,
\* whatever failed in the pairs before it, and the exit code is 0.
C11_ExitCodeContract ==
    args # "help" =>
        /\ main_pc # "crashed"
        /\ main_pc = "done" =>
               /\ exit_code = 1 <=> args \in StartErrors
               /\ exit_code = 1 => \A i \in 1 .. MaxFiles : files[i] = NoFile
               /\ exit_code # 1 =>
                      /\ exit_code = 0
                      /\ \A i \in 1 .. n_files : files[i].end # "none"

(***************************************************************************)
(* Claims about Configurable (SpecConfig).                                 *)
(***************************************************************************)
\* a JSON value that is a value of the parameter's type
InType(T, v) ==
    /\ ~is_object(v)
    /\ CASE T = "double" -> v.t \in {"integer", "float"}
         [] T = "int" -> v.t = "integer" /\ v.q = 0
         [] T = "string" -> v.t = "string"
         [] OTHER -> FALSE

\* the value v as a value of the type T, exactly
ValueAs(T, v) == IF T = "double" /\ v.t = "integer" THEN JFloat(v.q, 2 * v.h) ELSE v

\* C12: after construction every bound variable equals the value the user
\* configuration gives for its parameter, and the registered default when the
\* user configuration does not mention the parameter.
C12_BoundFollowsUserConfig ==
    cfg_pc = "done" =>
        \A i \in 1 .. 3 :
            LET prm == ConfigurableParams[i]
                given == contains(cfg_user, prm.path)
            IN  /\ ~given => cfg_bound.own[prm.path] = prm.default
                /\ (given /\ InType(prm.T, cfg_user[prm.path])) =>
                       cfg_bound.own[prm.path] = ValueAs(prm.T, cfg_user[prm.path])

\* the nested form of a user configuration that gives test_person by dotted keys
NestedForm(u) ==
    LET dotted == DOMAIN u \cap {"test_person.name", "test_person.age"}
        sub == [k \in {IF d = "test_person.name" THEN "name" ELSE "age" : d \in dotted} |->
                   IF k = "name" THEN u["test_person.name"] ELSE u["test_person.age"]]
    IN  [k \in (DOMAIN u \ dotted) \cup {"test_person"} |->
            IF k = "test_person" THEN sub ELSE u[k]]

UsesDottedKeys(u) ==
    /\ is_object(u)
    /\ DOMAIN u \cap {"test_person.name", "test_person.age"} # {}
    /\ "test_person" \notin DOMAIN u

\* C13: a user configuration with dotted keys has the effect of its nested
\* form: the same final configuration and the same bound variables, those of
\* the embedded component included.
C13_DottedEqualsNested ==
    (cfg_pc # "new" /\ UsesDottedKeys(cfg_user)) =>
        LET r == construct_test_Configurable(NestedForm(cfg_user))
        IN  /\ r.thrown <=> cfg_pc = "failed"
            /\ ~r.thrown =>
                   /\ r.config = cfg_config
                   /\ r.bound = cfg_bound.own
                   /\ r.person = cfg_bound.person

(***************************************************************************)
(* The image functions, stated on sets of pixels.                          *)
(***************************************************************************)
InputMask == SetOf(MaskOf(ip_image))
NeighboursIn(cg, S) ==
    {i \in 0 .. (cg.n - 1) : \E j \in S : cg.neigh_matrix[<<i, j>>] = 1}
Called(op) == ip_pc = "done" /\ ip_out.op = op

\* C14: dilate returns exactly the mask together with the pixels that have
\* a set neighbour, on every camera and mask; dilating {0} on the 4x4 grid
\* gives exactly {0, 1, 4}.
C14_DilateIsMaskAndNeighbours ==
    Called("dilate") =>
        /\ SetOf(ip_out.val) = InputMask \cup NeighboursIn(ip_camera, InputMask)
        /\ (ip_camera.n = 16 /\ InputMask = {0}) => SetOf(ip_out.val) = {0, 1, 4}

\* {0} on the 4x4 grid was dilated: pixel 0 has no set neighbour and stays,
\* pixels 1 and 4 are added
C14_Witness ==
    /\ Called("dilate")
    /\ ip_camera.n = 16
    /\ InputMask = {0}
    /\ SetOf(ip_out.val) = {0, 1, 4}

\* the connected component of pixel i within the set S of pixels
RECURSIVE Component(_, _, _)
Component(cg, S, T) ==
    LET U == T \cup (NeighboursIn(cg, T) \cap S)
    IN  IF U = T THEN T ELSE Component(cg, S, U)

\* the connected components of S: that of a pixel of S, then those of the rest
RECURSIVE Components(_, _)
Components(cg, S) ==
    IF S = {} THEN {}
    ELSE LET C == Component(cg, S, {CHOOSE i \in S : TRUE})
         IN  {C} \cup Components(cg, S \ C)

SizesIn(islands, lo, hi) ==
    Cardinality({I \in islands : Cardinality(I) >= lo /\ Cardinality(I) <= hi})

\* C15: morphology_parameter counts the pixels of the mask, which is the sum
\* of the island sizes, and the connected components of the mask; every
\* island is small (1 to 5 pixels), medium (6 to 50) or large (more than
\* 50), so the three counts add up to n_islands; an empty mask gives zeros.
C15_MorphologyCounts ==
    Called("morphology") =>
        LET r == ip_out.val
            islands == Components(ip_camera, InputMask)
        IN  /\ r.n_pixels = Cardinality(InputMask)
            /\ r.n_pixels = Cardinality(UNION islands)
            /\ r.n_islands = Cardinality(islands)
            /\ \A I \in islands : \A i \in I :
                   NeighboursIn(ip_camera, {i}) \cap InputMask \subseteq I
            /\ r.n_small_islands = SizesIn(islands, 1, 5)
            /\ r.n_medium_islands = SizesIn(islands, 6, 50)
            /\ r.n_large_islands = SizesIn(islands, 51, ip_camera.n)
            /\ r.n_islands = r.n_small_islands + r.n_medium_islands + r.n_large_islands
            /\ InputMask = {} =>
                   r = [n_pixels |-> 0, n_islands |-> 0, n_small_islands |-> 0,
                        n_medium_islands |-> 0, n_large_islands |-> 0]

\* the two outer rows of the 5x5 camera: 10 pixels in two small islands
C15_Witness ==
    /\ Called("morphology")
    /\ ip_camera.n = 25
    /\ InputMask = (0 .. 4) \cup (20 .. 24)
    /\ ip_out.val = [n_pixels |-> 10, n_islands |-> 2, n_small_islands |-> 2,
                     n_medium_islands |-> 0, n_large_islands |-> 0]

\* the number of neighbours of pixel i, and how many pixels have c neighbours
Degree(cg, i) == Cardinality(NeighboursIn(cg, {i}))
Frequency(cg, c) == Cardinality({i \in 0 .. (cg.n - 1) : Degree(cg, i) = c})

\* the camera's modal neighbour counts (more than one when they tie)
ModalCounts(cg) ==
    {c \in {Degree(cg, i) : i \in 0 .. (cg.n - 1)} :
        \A i \in 0 .. (cg.n - 1) : Frequency(cg, Degree(cg, i)) <= Frequency(cg, c)}

LargestCount(cg) ==
    CHOOSE c \in {Degree(cg, i) : i \in 0 .. (cg.n - 1)} :
        \A i \in 0 .. (cg.n - 1) : Degree(cg, i) <= c

\* the pixels with fewer than c neighbours
FewerThan(cg, c) == {i \in 0 .. (cg.n - 1) : Degree(cg, i) < c}

\* the ratio r is a / b
IsRatio(r, a, b) == ~r.nan /\ r.num * b = a * r.den

\* the result r is the leakage of the masked image for the outer ring outer1
LeakageOver(r, outer1) ==
    LET outer2 == outer1 \cup NeighboursIn(ip_camera, outer1)
        size == Cardinality(InputMask)
        W == SumOver(ip_image, InputMask)
    IN  IF size = 0 \/ W = 0
        THEN r.pixels_width_1.nan /\ r.pixels_width_2.nan
             /\ r.intensity_width_1.nan /\ r.intensity_width_2.nan
        ELSE /\ IsRatio(r.pixels_width_1, Cardinality(InputMask \cap outer1), size)
             /\ IsRatio(r.pixels_width_2, Cardinality(InputMask \cap outer2), size)
             /\ IsRatio(r.intensity_width_1, SumOver(ip_image, InputMask \cap outer1), W)
             /\ IsRatio(r.intensity_width_2, SumOver(ip_image, InputMask \cap outer2), W)

\* on the 5x5 camera with every pixel set the pixel fractions are 16/25 and 24/25
LeakageOnFullGrid(r) ==
    (ip_camera.n = 25 /\ Cardinality(InputMask) = 25) =>
        IsRatio(r.pixels_width_1, 16, 25) /\ IsRatio(r.pixels_width_2, 24, 25)

RECURSIVE FracLeq(_, _, _, _)
FracLeq(a, b, c, d) ==
    LET qa == a \div b
        qc == c \div d
        ra == a % b
        rc == c % d
    IN  IF qa # qc THEN qa < qc
        ELSE IF ra = 0 THEN TRUE
        ELSE IF rc = 0 THEN FALSE
        ELSE FracLeq(d, rc, b, ra)

Abs(n) == IF n < 0 THEN 0 - n ELSE n

\* the smaller eigenvalue of (cxx, cxy; cxy, cyy) is >= 0: the trace and
\* the determinant are; the larger one is never below the smaller one
WidthNotNegative(r) ==
    /\ r.cxx >= 0
    /\ r.cyy >= 0
    /\ r.cxy # 0 =>
           r.cxx > 0 /\ FracLeq(Abs(r.cxy), r.cxx, r.cyy, Abs(r.cxy))

C18_TooFewTelescopesInvalid ==
    (st_pc \notin {"idle", "input"} /\ Cardinality(selected_telescopes(st_event)) < 2) =>
        /\ st_pc = "done"
        /\ ~st_geometry.is_valid

\* an event with dl1 parameters of two telescopes, one of which passes
C18_Witness ==
    /\ st_pc = "done"
    /\ Cardinality(DOMAIN st_event) >= 2
    /\ Cardinality(selected_telescopes(st_event)) = 1
    /\ ~st_geometry.is_valid

\* the 4x4 image that is b everywhere except image[10] = 10
PeakAt10(b) == [p \in 0 .. 15 |-> IF p = 10 THEN 10 ELSE b]

\* tailcuts_clean was called with picture_thresh 8, boundary_thresh 1,
\* keep_isolated_pixels false and min_number_picture_neighbors 0
IsolatedPeakCall ==
    /\ Called("tailcuts_clean")
    /\ ip_camera.n = 16
    /\ ip_out.val.picture_thresh = 8
    /\ ip_out.val.boundary_thresh = 1
    /\ ~ip_out.val.keep_isolated_pixels
    /\ ip_out.val.min_number_picture_neighbors = 0

\* C19 as stated: on the 4x4 camera, for the image that is all zeros except
\* image[10] = 10, that call returns exactly the pixels {6, 9, 10, 11, 14}.
C19_IsolatedPeakOnZeros ==
    (IsolatedPeakCall /\ ip_image = PeakAt10(0)) =>
        SetOf(ip_out.val.mask) = {6, 9, 10, 11, 14}

\* C19, amended: the call returns exactly {6, 9, 10, 11, 14} when the other
\* pixels hold a value b with 1 <= b < 8 (the test's image has b = 5), and
\* the empty mask when they are zero.
C19_IsolatedPeakOnBackground ==
    IsolatedPeakCall =>
        \A b \in Backgrounds :
            ip_image = PeakAt10(b) =>
                SetOf(ip_out.val.mask) = IF b >= 1 /\ b < 8 THEN {6, 9, 10, 11, 14} ELSE {}

\* the test's image, 5 everywhere and 10 at pixel 10, was cleaned to 5 pixels
C19_Witness ==
    /\ IsolatedPeakCall
    /\ ip_image = PeakAt10(5)
    /\ SetOf(ip_out.val.mask) = {6, 9, 10, 11, 14}
    /\ Cardinality(SetOf(ip_out.val.mask)) = 5

\* exactly pixel p reaches picture_thresh and every other pixel lies in
\* [boundary_thresh, picture_thresh)
SoloAboveThreshold(p) ==
    /\ image[p] >= picture_thresh
    /\ \A i \in Pixels \ {p} : image[i] >= boundary_thresh /\ image[i] < picture_thresh

SoloCall ==
    tc_pc = "done" /\ ~keep_isolated_pixels /\ min_number_picture_neighbors = 0

\* C20 as stated: with keep_isolated_pixels false and
\* min_number_picture_neighbors 0, when exactly one pixel p reaches
\* picture_thresh and all others lie in [boundary_thresh, picture_thresh),
\* the mask is exactly p and the neighbours of p.
C20_SoloPixelAndNeighbours ==
    SoloCall => \A p \in Pixels : SoloAboveThreshold(p) => MaskSet = {p} \cup N(p)

\* C20, amended: that holds when p has at least one neighbour; a pixel p
\* without neighbours is dropped and the mask is empty.
C20_SoloPixelWithNeighbours ==
    SoloCall =>
        \A p \in Pixels :
            SoloAboveThreshold(p) =>
                MaskSet = IF N(p) # {} THEN {p} \cup N(p) ELSE {}

\* a solo pixel with a neighbour, and a pixel that is neither, was cleaned
C20_Witness ==
    /\ SoloCall
    /\ \E p \in Pixels :
           /\ SoloAboveThreshold(p)
           /\ N(p) # {}
           /\ MaskSet = {p} \cup N(p)
           /\ MaskSet # Pixels

\* C21: with keep_isolated_pixels every pixel at or above picture_thresh is
\* in the mask, whatever its neighbours hold and whatever
\* min_number_picture_neighbors is.
C21_KeepIsolatedKeepsPicture ==
    (tc_pc = "done" /\ keep_isolated_pixels) => SetP \subseteq MaskSet

\* a picture pixel with neighbours, none of which reaches boundary_thresh,
\* survived under a neighbour constraint of at least one
C21_Witness ==
    /\ tc_pc = "done"
    /\ keep_isolated_pixels
    /\ min_number_picture_neighbors >= 1
    /\ \E p \in SetP : N(p) # {} /\ N(p) \cap SetB = {} /\ mask[p]

\* the picture pixels with fewer than min_number_picture_neighbors picture
\* neighbours, and those with enough of them
TooFewPictureNeighbours ==
    {i \in SetP : Cardinality(N(i) \cap SetP) < min_number_picture_neighbors}
EnoughPictureNeighbours ==
    {i \in SetP : Cardinality(N(i) \cap SetP) >= min_number_picture_neighbors}

\* C22: with keep_isolated_pixels false and min_number_picture_neighbors
\* k >= 1, a picture pixel with fewer than k picture neighbours is in the
\* mask only if it is adjacent to a picture pixel that has at least k.
C22_WeakPicturePixelNeedsStrongNeighbour ==
    (tc_pc = "done" /\ ~keep_isolated_pixels /\ min_number_picture_neighbors >= 1) =>
        \A p \in TooFewPictureNeighbours :
            mask[p] => N(p) \cap EnoughPictureNeighbours # {}

\* a picture pixel with too few picture neighbours was kept next to one
\* that has enough of them
C22_Witness ==
    /\ tc_pc = "done"
    /\ ~keep_isolated_pixels
    /\ min_number_picture_neighbors >= 1
    /\ \E p \in TooFewPictureNeighbours :
           mask[p] /\ N(p) \cap EnoughPictureNeighbours # {}

\* every pixel of the image holds the value v
ConstantImage(v) == \A i \in Pixels : image[i] = v

\* C23: on a camera where every pixel has a neighbour, with boundary_thresh
\* <= picture_thresh, keep_isolated_pixels false and
\* min_number_picture_neighbors 0, a constant image of value v is cleaned to
\* the all-false mask when v < picture_thresh and to the all-true mask when
\* v >= picture_thresh.
C23_ConstantImage ==
    (/\ tc_pc = "done"
     /\ \A i \in Pixels : N(i) # {}
     /\ boundary_thresh <= picture_thresh
     /\ ~keep_isolated_pixels
     /\ min_number_picture_neighbors = 0) =>
        \A v \in 0 .. MaxVal :
            ConstantImage(v) =>
                MaskSet = IF v < picture_thresh THEN {} ELSE Pixels

\* a constant image exactly at picture_thresh was cleaned to the full mask
C23_Witness ==
    /\ tc_pc = "done"
    /\ \A i \in Pixels : N(i) # {}
    /\ boundary_thresh <= picture_thresh
    /\ ~keep_isolated_pixels
    /\ min_number_picture_neighbors = 0
    /\ ConstantImage(picture_thresh)
    /\ MaskSet = Pixels

(***************************************************************************)
(* C24: at close() BuildIndex(event_id, tel_id) runs for every registered  *)
(* per-telescope table (r0, r1, dl0, dl1, dl2, monitor) before it is       *)
(* written, and for no array-level table (shower, pointing, the geometry   *)
(* tables) and no index table; every registered table is written.          *)
(***************************************************************************)
C24_IndexOnTelescopeTables ==
    rw_pc = "closed" =>
        /\ \A n \in trees : \E s \in stored : s.tree = n
        /\ \A s \in stored : s.indexed <=> s.tree \in TelLayers

C24_Witness ==
    /\ rw_pc = "closed"
    /\ {"dl2", "dl2_index", "geomA", "pointing"} \subseteq {s.tree : s \in stored}

(***************************************************************************)
(* C25: the row write_dl2 appends to the geometry table of reconstructor R *)
(* carries the event_id of the event written, the name R and the geometry  *)
(* the event holds for R, after any earlier write_dl2 calls and also when  *)
(* the event holds the geometries of two or more reconstructors.           *)
(***************************************************************************)
C25_GeometryRowOfEvent ==
    [][\A R \in GeomNames :
          Len(tables'[R]) > Len(tables[R]) =>
              tables'[R][Len(tables'[R])] =
                  [event_id |-> rw_calls', reconstructor_name |-> R]]_vars

(***************************************************************************)
(* C26: the pointing row written for an event lists exactly the telescope  *)
(* entries of that event's pointing layer; no entry of an earlier event    *)
(* appears in the row of a later event.                                    *)
(***************************************************************************)
C26_PointingRowOfEvent ==
    \A k \in DOMAIN tables["pointing"] :
        \A j \in DOMAIN tables["pointing"][k].telescopes :
            tables["pointing"][k].telescopes[j].of_event =
                tables["pointing"][k].event_id

(***************************************************************************)
(* C27: in every state reached by write_* calls after open, every table of *)
(* trees has a directory in directories; close() therefore never fails     *)
(* with "directory not found" and writes every registered table.           *)
(***************************************************************************)
C27_TreesHaveDirectories ==
    /\ trees \subseteq DOMAIN directories
    /\ rw_pc /= "close_failed"
    /\ rw_pc = "closed" => {s.tree : s \in stored} = trees

C27_Witness ==
    /\ rw_pc = "closed"
    /\ {"shower", "monitor", "monitor_index"} \subseteq {s.tree : s \in stored}

\* json == json on scalars: an integer and a float compare by their value
JsonEq(a, b) ==
    LET AsFloat(v) == IF ~is_object(v) /\ v.t = "integer"
                      THEN JFloat(v.q, 2 * v.h) ELSE v
    IN  AsFloat(a) = AsFloat(b)

\* the configuration holds, at each path of params with a bound variable, the
\* value of that variable
HoldsBound(params, n, config, bound) ==
    \A i \in 1 .. n :
        /\ contains(config, params[i].path)
        /\ JsonEq(config[params[i].path], bound[params[i].path])

\* C28: after initialize() has completed without error, getConfig() contains
\* the path of every registered parameter that has a bound variable, and the
\* value stored there equals the bound variable, for test_Configurable (x, y,
\* str, test_embedded_class_name) and for its embedded test_person (name, age).
C28_ConfigHoldsBoundValues ==
    cfg_pc = "done" =>
        /\ HoldsBound(ConfigurableParams, 4, cfg_config, cfg_bound.own)
        /\ cfg_bound.person.has =>
               HoldsBound(PersonParams, 2, cfg_bound.person.config,
                          cfg_bound.person.bound)

\* C29: for every user configuration object, also one with a key that is
\* empty or consists only of dots, the construction (processUserConfig with
\* setJsonValue, then getJsonValue for every parameter) ends without reading
\* the list of path parts outside its bounds.
C29_PartsIndexedInBounds ==
    cfg_pc # "undefined"

(***************************************************************************)
(* Claims about interp (SpecInterp).                                       *)
(***************************************************************************)
\* x lies between the table points a and b, in either order
Between(x, a, b) ==
    \/ x_ge(x, a) /\ x_le(x, b)
    \/ x_ge(x, b) /\ x_le(x, a)

\* x is at or beyond the point e of the table, seen from the point inwards
AtOrBeyond(x, e, inwards) ==
    IF e < inwards THEN x_le(x, e) ELSE x_ge(x, e)

\* 0 <= f <= 1 for a written fraction
InUnitInterval(f) ==
    /\ f.den # 0
    /\ f.num * f.den >= 0
    /\ IF f.den > 0 THEN f.num <= f.den ELSE f.num >= f.den

InterpEnded == itp_pc \in {"returned", "error"}

\* what interp owes for the table itp_v and the coordinate itp_x
InterpContract ==
    LET first == V(itp_v, 0)
        last == V(itp_v, itp_v.n - 1)
    IN  /\ itp_pc = "returned"
        /\ itp_i <= SearchIterations
        /\ 1 <= ipl /\ ipl <= itp_v.n - 1
        /\ InUnitInterval(rpl)
        /\ Between(itp_x, first, last) =>
               Between(itp_x, V(itp_v, ipl - 1), V(itp_v, ipl))
        /\ AtOrBeyond(itp_x, first, last) => ipl = 1 /\ rpl = Fraction(0, 1)
        /\ AtOrBeyond(itp_x, last, first) =>
               ipl = itp_v.n - 1 /\ rpl = Fraction(1, 1)

\* C30: for every strictly monotonic table of n >= 2 points and every
\* coordinate x (a number), interp returns from its at most 30 iterations
\* without the "Interpolation error" exit, with 1 <= ipl <= n-1, 0 <= rpl <= 1
\* and x between v[ipl-1] and v[ipl] inside the range, and with (1, 0) at or
\* beyond the first point and (n-1, 1) at or beyond the last.
C30_InterpFindsInterval ==
    (InterpEnded /\ ~itp_x.nan) => InterpContract

====
